---- MODULE Spec2Model ----
(***************************************************************************)
(* A model of the Fiat-Shamir transcript (src/src/transcript.rs), of the   *)
(* multi-point opening prover (src/src/poly/multiopen/prover.rs), of the   *)
(* multi-scalar multiplication on the accelerator                          *)
(* (src/halo2_proofs/src/icicle.rs), of the Poseidon hash and Duplex       *)
(* (src/src/primitives/poseidon.rs), of FieldExt::batch_invert             *)
(* (src/src/arithmetic/fields.rs) and of the column list of the            *)
(* permutation argument (src/src/plonk/permutation.rs).                    *)
(*                                                                         *)
(* Scaling.  The field elements of the code are 255-bit numbers encoded in *)
(* 32 bytes and the digest has 64 bytes.  Here a "byte" is a digit in base *)
(* ByteBase, a field element is encoded in ReprLen digits and a digest in  *)
(* DigestLen = 2 * ReprLen digits.  The curve is y^2 = x^3 + 3 over F_7,   *)
(* of prime order 13, so the base field is F_7 and the scalar field F_13   *)
(* (as for Pallas, the base modulus is the smaller of the two).            *)
(***************************************************************************)
EXTENDS Integers, Sequences, FiniteSets, TLC

\* ------------------------------------------------------------------ bounds
\* Calls the prover makes on its transcript in one session.
MaxOps == 3

\* ----------------------------------------------------- scaled program constants
ByteBase == 4
ReprLen == 2
DigestLen == 4
BaseModulus == 7
ScalarModulus == 13
CurveB == 3
\* ZETA of the scalar field, an element of multiplicative order 3, and the
\* number of bit pairs of a 128-bit challenge (64 in the code).
Zeta == 3
EndoPairs == 2

\* ------------------------------------------------------------------ bounds
\* Instances handed to Proof::create, and queries handed to
\* construct_intermediate_sets.
MaxInstances == 3
MaxQueries == 4

\* ------------------------------------------------------------- field encoding
RECURSIVE Pow(_, _)
Pow(b, e) == IF e = 0 THEN 1 ELSE b * Pow(b, e - 1)

RECURSIVE FromLE(_)
\* The integer a little-endian byte string denotes.
FromLE(bytes) ==
  IF bytes = <<>> THEN 0 ELSE Head(bytes) + ByteBase * FromLE(Tail(bytes))

\* FieldExt::to_bytes: the normalized little-endian representation.
ToBytes(v) == [i \in 1..ReprLen |-> (v \div Pow(ByteBase, i - 1)) % ByteBase]

None == [some |-> FALSE, v |-> 0]
Some(v) == [some |-> TRUE, v |-> v]

\* FieldExt::from_bytes: only the normalized representation decodes.
FromBytes(bytes, modulus) ==
  LET v == FromLE(bytes) IN IF v < modulus THEN Some(v) ELSE None

\* FieldExt::from_bytes_wide: any 2*ReprLen bytes, reduced.
FromBytesWide(bytes) == FromLE(bytes) % ScalarModulus

\* ---------------------------------------------------------------- the curve
Identity == [inf |-> TRUE, x |-> 0, y |-> 0]
Affine(x, y) == [inf |-> FALSE, x |-> x, y |-> y]
OnCurve(x, y) == (y * y) % BaseModulus = (x * x * x + CurveB) % BaseModulus

\* CurveAffine::coordinates: None for the point at infinity.
Coordinates(point) ==
  IF point.inf THEN [some |-> FALSE, x |-> 0, y |-> 0]
  ELSE [some |-> TRUE, x |-> point.x, y |-> point.y]

\* The transcripts are generic in the curve C, and the bytes of a point on the
\* wire are C's: C::Repr, C::to_bytes and C::from_bytes.  Two curves are
\* modelled.  The one has the encoding of two field elements, x and then y, in
\* which no bytes stand for the point at infinity.  The other has the
\* compressed encoding the transcript's code names its bytes after: the
\* encoding of x, in as many bytes as a field element, with the parity of y in
\* the highest bit, the zero bytes standing for the point at infinity.
Curves == {"coordinates", "compressed"}
SignBit == Pow(ByteBase, ReprLen) \div 2

\* The length of C::Repr.
PointReprLen(C) == IF C = "coordinates" THEN 2 * ReprLen ELSE ReprLen

\* C::to_bytes, the wire encoding of a point.
PointToBytes(C, point) ==
  IF C = "coordinates" THEN ToBytes(point.x) \o ToBytes(point.y)
  ELSE ToBytes(point.x + SignBit * (point.y % 2))

\* C::from_bytes: the point the bytes stand for, if any.
PointFromBytes(C, bytes) ==
  IF C = "coordinates"
  THEN LET x == FromBytes(SubSeq(bytes, 1, ReprLen), BaseModulus)
           y == FromBytes(SubSeq(bytes, ReprLen + 1, 2 * ReprLen), BaseModulus)
       IN  IF x.some /\ y.some /\ OnCurve(x.v, y.v)
           THEN [some |-> TRUE, p |-> Affine(x.v, y.v)]
           ELSE [some |-> FALSE, p |-> Identity]
  ELSE LET v == FromLE(bytes)
           x == v % SignBit
           ys == {y \in 0..(BaseModulus - 1) : OnCurve(x, y) /\ y % 2 = v \div SignBit}
       IN  IF v = 0 THEN [some |-> TRUE, p |-> Identity]
           ELSE IF x >= BaseModulus \/ ys = {} THEN [some |-> FALSE, p |-> Identity]
           ELSE [some |-> TRUE, p |-> Affine(x, CHOOSE y \in ys : TRUE)]

\* ------------------------------------------------------------ the hash state
\* A Blake2bState is determined by its parameters and the bytes fed to it.
Blake2bParams == [hash_length |-> DigestLen, personal |-> "Halo2-Transcript"]
ToState(params) == [params |-> params, input |-> <<>>]
Update(state, bytes) == [state EXCEPT !.input = @ \o bytes]

\* BLAKE2b as a collision-free function: `orc` lists the hash states finalized
\* so far, and the digest of the i-th of them is the number DigestValue(i) in
\* DigestLen little-endian bytes.  Distinct states get distinct digests, whose
\* reductions modulo ScalarModulus are distinct too (DigestValue(i) is i modulo
\* ScalarModulus), for as long as fewer than ScalarModulus states are hashed.
OracleIndex(orc, state) ==
  IF \E i \in 1..Len(orc) : orc[i] = state
  THEN CHOOSE i \in 1..Len(orc) : orc[i] = state
  ELSE Len(orc) + 1
OracleAdd(orc, state) ==
  IF \E i \in 1..Len(orc) : orc[i] = state THEN orc ELSE Append(orc, state)
DigestValue(i) == (ScalarModulus + 1) * i + 2 * ScalarModulus
DigestBytes(i) ==
  [k \in 1..DigestLen |-> (DigestValue(i) \div Pow(ByteBase, k - 1)) % ByteBase]
Finalize(orc, state) == DigestBytes(OracleIndex(orc, state))

\* Mutant: the lower half of the digest is stored as it is.
Challenge255New_lower_half(challenge_input) == SubSeq(challenge_input, 1, ReprLen)
\* Challenge255::new and Challenge255::get_scalar.
Challenge255New(challenge_input) == ToBytes(FromBytesWide(challenge_input))
Challenge255GetScalar(ch) == FromBytes(ch, ScalarModulus).v

\* ------------------------------------------------- Blake2bWrite (the prover)
\* A transcript is [state, io, marker_c]: the hash state, the writer or the
\* reader (the bytes not yet read), and the curve C it is a transcript of.  A
\* method returns the transcript after the call, whether it returned Ok, and
\* its value.
\*
\* A writer W keeps, in order, the bytes its calls of write have taken.  It is
\* the bytes it holds, the room it has, and what its coming calls of write_all
\* take.  The room is None for a writer that takes every byte (a Vec<u8>) and
\* Some(n) for one that takes n bytes more (a Cursor over a boxed slice).
\* `takes` is empty for these two; for a writer whose calls of write can fail
\* and work again (a file, a socket), takes[k] is the number of bytes it takes
\* in the k-th call of write_all from now, before a call of write fails.
Writer(buf, room) == [buf |-> buf, room |-> room, takes |-> <<>>]
VecWriter == Writer(<<>>, None)
FailingWriter(takes) == [buf |-> <<>>, room |-> None, takes |-> takes]
\* Write::write_all on the writer: the bytes the writer takes are written, and
\* the call returns an error when they are not all of them.
WriteAll(writer, bytes) ==
  LET fits == IF writer.room.some /\ writer.room.v < Len(bytes)
              THEN writer.room.v ELSE Len(bytes)
      n == IF writer.takes # <<>> /\ Head(writer.takes) < fits
           THEN Head(writer.takes) ELSE fits
  IN  [writer |-> [buf |-> writer.buf \o SubSeq(bytes, 1, n),
                   room |-> IF writer.room.some THEN Some(writer.room.v - n) ELSE None,
                   takes |-> IF writer.takes = <<>> THEN <<>> ELSE Tail(writer.takes)],
       ok |-> n = Len(bytes)]

Blake2bWriteInit(writer, C) ==
  [state |-> ToState(Blake2bParams), io |-> writer, marker_c |-> C]

NoValue == [kind |-> "none", s |-> 0, p |-> Identity, ch |-> <<>>]
ScalarValue(s) == [NoValue EXCEPT !.kind = "scalar", !.s = s]
PointValue(p) == [NoValue EXCEPT !.kind = "point", !.p = p]
ChallengeValue(ch) == [NoValue EXCEPT !.kind = "challenge", !.ch = ch]

Ok(t, value) == [t |-> t, ok |-> TRUE, value |-> value]
Err(t) == [t |-> t, ok |-> FALSE, value |-> NoValue]

\* Mutant: a marker of the kind of element goes before the coordinates.
Write_common_point_tagged(t, point) ==
  LET coords == Coordinates(point) IN
  IF ~coords.some THEN Err(t)
  ELSE Ok([t EXCEPT !.state =
             Update(Update(Update(@, <<1>>), ToBytes(coords.x)), ToBytes(coords.y))],
          NoValue)

Write_common_point(t, point) ==
  LET coords == Coordinates(point) IN
  IF ~coords.some THEN Err(t)
  ELSE Ok([t EXCEPT !.state = Update(Update(@, ToBytes(coords.x)), ToBytes(coords.y))],
          NoValue)

Write_common_scalar(t, scalar) ==
  Ok([t EXCEPT !.state = Update(@, ToBytes(scalar))], NoValue)

\* Mutant: the point is written before it is absorbed.
Write_write_point_early(t, point) ==
  LET w == WriteAll(t.io, PointToBytes(t.marker_c, point))
      r == Write_common_point([t EXCEPT !.io = w.writer], point)
  IN  IF ~r.ok THEN r ELSE IF w.ok THEN Ok(r.t, NoValue) ELSE Err(r.t)

\* Blake2bWrite::write_point (transcript.rs 171-175): the point is absorbed,
\* and then written; the call returns what write_all returns.
Write_write_point(t, point) ==
  LET r == Write_common_point(t, point) IN
  IF ~r.ok THEN r
  ELSE LET w == WriteAll(r.t.io, PointToBytes(r.t.marker_c, point))
           t1 == [r.t EXCEPT !.io = w.writer]
       IN  IF w.ok THEN Ok(t1, NoValue) ELSE Err(t1)

\* Mutant: the encoding is written after a length prefix.
Write_write_scalar_prefixed(t, scalar) ==
  LET r == Write_common_scalar(t, scalar) IN
  IF ~r.ok THEN r
  ELSE LET w == WriteAll(r.t.io, <<ReprLen>> \o ToBytes(scalar))
           t1 == [r.t EXCEPT !.io = w.writer]
       IN  IF w.ok THEN Ok(t1, NoValue) ELSE Err(t1)

\* Blake2bWrite::write_scalar (transcript.rs 176-180).
Write_write_scalar(t, scalar) ==
  LET r == Write_common_scalar(t, scalar) IN
  IF ~r.ok THEN r
  ELSE LET w == WriteAll(r.t.io, ToBytes(scalar))
           t1 == [r.t EXCEPT !.io = w.writer]
       IN  IF w.ok THEN Ok(t1, NoValue) ELSE Err(t1)

\* Mutant: the digest is not absorbed.
Write_squeeze_challenge_noratchet(t, orc) ==
  LET result == Finalize(orc, t.state) IN
  Ok(t, ChallengeValue(Challenge255New(result)))

Write_squeeze_challenge(t, orc) ==
  LET result == Finalize(orc, t.state) IN
  Ok([t EXCEPT !.state = Update(@, result)], ChallengeValue(Challenge255New(result)))

\* Blake2bWrite::finalize: the writer.
Write_finalize(t) == t.io

\* ------------------------------------------------ Blake2bRead (the verifier)
\* Mutant: another personalization.
Blake2bReadInit_personal(reader, C) ==
  [state |-> ToState([Blake2bParams EXCEPT !.personal = "Halo2-Verifier"]), io |-> reader,
   marker_c |-> C]

Blake2bReadInit(reader, C) ==
  [state |-> ToState(Blake2bParams), io |-> reader, marker_c |-> C]

\* Read::read_exact of n bytes.  At an early end of the stream it fails, and how
\* much of the stream it has consumed is left open by the reader's contract:
\* `drained` chooses between nothing and everything.
ReadExact(reader, n, drained) ==
  IF Len(reader) >= n
  THEN [ok |-> TRUE, buf |-> SubSeq(reader, 1, n), rest |-> SubSeq(reader, n + 1, Len(reader))]
  ELSE [ok |-> FALSE, buf |-> <<>>, rest |-> IF drained THEN <<>> ELSE reader]

\* Mutant: the coordinates absorbed in the other order.
Read_common_point_yx(t, point) ==
  LET coords == Coordinates(point) IN
  IF ~coords.some THEN Err(t)
  ELSE Ok([t EXCEPT !.state = Update(Update(@, ToBytes(coords.y)), ToBytes(coords.x))],
          NoValue)

Read_common_point(t, point) ==
  LET coords == Coordinates(point) IN
  IF ~coords.some THEN Err(t)
  ELSE Ok([t EXCEPT !.state = Update(Update(@, ToBytes(coords.x)), ToBytes(coords.y))],
          NoValue)

Read_common_scalar(t, scalar) ==
  Ok([t EXCEPT !.state = Update(@, ToBytes(scalar))], NoValue)

Read_read_point(t, drained) ==
  LET rd == ReadExact(t.io, PointReprLen(t.marker_c), drained)
      t1 == [t EXCEPT !.io = rd.rest]
      point == PointFromBytes(t.marker_c, rd.buf)
  IN  IF ~rd.ok THEN Err(t1)
      ELSE IF ~point.some THEN Err(t1)
      ELSE LET r == Read_common_point(t1, point.p) IN
           IF ~r.ok THEN r ELSE Ok(r.t, PointValue(point.p))

\* Mutant: the bytes read are absorbed before they are decoded.
Read_read_scalar_absorb_first(t, drained) ==
  LET rd == ReadExact(t.io, ReprLen, drained)
      t1 == [t EXCEPT !.io = rd.rest]
      t2 == [t1 EXCEPT !.state = Update(@, rd.buf)]
      scalar == FromBytes(rd.buf, ScalarModulus)
  IN  IF ~rd.ok THEN Err(t1)
      ELSE IF ~scalar.some THEN Err(t2)
      ELSE Ok(t2, ScalarValue(scalar.v))

Read_read_scalar(t, drained) ==
  LET rd == ReadExact(t.io, ReprLen, drained)
      t1 == [t EXCEPT !.io = rd.rest]
      scalar == FromBytes(rd.buf, ScalarModulus)
  IN  IF ~rd.ok THEN Err(t1)
      ELSE IF ~scalar.some THEN Err(t1)
      ELSE LET r == Read_common_scalar(t1, scalar.v) IN
           IF ~r.ok THEN r ELSE Ok(r.t, ScalarValue(scalar.v))

Read_squeeze_challenge(t, orc) ==
  LET result == Finalize(orc, t.state) IN
  Ok([t EXCEPT !.state = Update(@, result)], ChallengeValue(Challenge255New(result)))

\* ==================================================== the multiopen prover
\* ------------------------------------------------------ scalar arithmetic
FAdd(a, b) == (a + b) % ScalarModulus
FMul(a, b) == (a * b) % ScalarModulus
FSub(a, b) == (a - b + ScalarModulus) % ScalarModulus

Bit(c, n) == (c \div Pow(2, n)) % 2

\* Mutant: the bit pairs are gone through from the lowest to the highest.
RECURSIVE EndoLoop_upwards(_, _, _)
EndoLoop_upwards(c, i, acc) ==
  IF i < 0 THEN acc
  ELSE LET j == EndoPairs - 1 - i
           should_negate == Bit(c, 2 * j + 1) = 1
           should_endo == Bit(c, 2 * j) = 1
           q0 == IF should_negate THEN FSub(0, 1) ELSE 1
           q == IF should_endo THEN FMul(q0, Zeta) ELSE q0
       IN  EndoLoop_upwards(c, i - 1, FAdd(FAdd(acc, q), acc))

\* Challenge128::get_scalar (Algorithm 1 of the Halo paper), which
\* get_challenge_scalar of the prover computes too: `i` counts down from
\* EndoPairs - 1 to 0.
RECURSIVE EndoLoop(_, _, _)
EndoLoop(c, i, acc) ==
  IF i < 0 THEN acc
  ELSE LET should_negate == Bit(c, 2 * i + 1) = 1
           should_endo == Bit(c, 2 * i) = 1
           q0 == IF should_negate THEN FSub(0, 1) ELSE 1
           q == IF should_endo THEN FMul(q0, Zeta) ELSE q0
       IN  EndoLoop(c, i - 1, FAdd(FAdd(acc, q), acc))
Challenge128GetScalar(c) == EndoLoop(c, EndoPairs - 1, FMul(2, FAdd(Zeta, 1)))

\* FieldExt::get_lower_128.
GetLower128(v) == v % Pow(4, EndoPairs)

\* ------------------------------------------------------------ polynomials
\* eval_polynomial, by Horner's rule from the highest coefficient.
RECURSIVE EvalPolynomial(_, _)
EvalPolynomial(poly, x) ==
  IF poly = <<>> THEN 0 ELSE FAdd(Head(poly), FMul(x, EvalPolynomial(Tail(poly), x)))

\* The loop body `*q *= x; *q += a` over q zipped with a: the zip ends with the
\* shorter of the two.
HornerZip(q, a, x) ==
  [i \in 1..Len(q) |-> IF i <= Len(a) THEN FAdd(FMul(q[i], x), a[i]) ELSE q[i]]

\* parallelize: the closure runs on disjoint chunks of the vector, each with
\* the index it starts at; together they update every index once.
Parallelize(q, a, x) == HornerZip(q, a, x)

\* kate_division(a, z): the quotient of a(X) by X - z, one coefficient fewer;
\* the remainder is dropped.
RECURSIVE KateQuot(_, _, _)
KateQuot(a, z, k) ==
  \* coefficient k (from 1) of the quotient
  IF k = Len(a) - 1 THEN a[Len(a)]
  ELSE FAdd(a[k + 1], FMul(z, KateQuot(a, z, k + 1)))
KateDivision(a, z) == [k \in 1..(Len(a) - 1) |-> KateQuot(a, z, k)]

\* ------------------------------------------------------------ commitments
\* The commitment group has ScalarModulus elements; an element is written as
\* its multiple of a fixed generator, 0 being the identity.  Params::commit is
\* the Pedersen commitment sum_i poly[i] * g[i] + blind * h.
Params == [g |-> <<1, 5, 8>>, h |-> 1 + 2]
RECURSIVE Msm(_, _)
Msm(coeffs, bases) ==
  IF coeffs = <<>> \/ bases = <<>> THEN 0
  ELSE FAdd(FMul(Head(coeffs), Head(bases)), Msm(Tail(coeffs), Tail(bases)))
Commit(params, poly, blind) == FAdd(Msm(poly, params.g), FMul(blind, params.h))

\* ------------------------------------------------------------- the Hasher
\* A Hasher is the sequence of what it absorbed and of its squeezes.  Its
\* output is a function of that sequence and of the session's `seed`, which
\* stands for the choice of the hash function.
HAbsorbItem(v) == [k |-> "absorb", v |-> v]
HSqueezeItem == [k |-> "squeeze", v |-> 0]
HOpeningItem == [k |-> "opening", v |-> 0]
HAbsorb(h, v) == Append(h, HAbsorbItem(v))
RECURSIVE HDigest(_, _)
HDigest(h, acc) ==
  IF h = <<>> THEN acc
  ELSE HDigest(Tail(h), (acc * 5 + Head(h).v
                         + (IF Head(h).k = "absorb" THEN 1 ELSE 0)) % (BaseModulus * ScalarModulus))
HSqueezeOut(h, seed, modulus) == HDigest(h, seed) % modulus
HSqueeze(h) == Append(h, HSqueezeItem)

\* hash_point: absorbs the two coordinates of a point, and fails on the
\* identity.  The coordinates of the group element k are those of k times the
\* point (1, 2) of the curve.
CurveMultiples ==
  <<Affine(1, 2), Affine(6, 3), Affine(2, 2), Affine(4, 5), Affine(3, 3), Affine(5, 3),
    Affine(5, 4), Affine(3, 4), Affine(4, 2), Affine(2, 5), Affine(6, 4), Affine(1, 5)>>
ToAffine(k) == IF k = 0 THEN Identity ELSE CurveMultiples[k]
HashPoint(h, k) ==
  LET coords == Coordinates(ToAffine(k)) IN
  IF ~coords.some THEN [ok |-> FALSE, h |-> h]
  ELSE [ok |-> TRUE, h |-> HAbsorb(HAbsorb(h, coords.x), coords.y)]

\* ---------------------------------------------------------- Proof::create
\* The state of one call of Proof::create: `pc` is the place in the function,
\* `transcript` and `transcript_scalar` are the caller's two Hashers, `t` and
\* `ts` the clones of the current attempt, `next` the instance the first loop
\* is at, `events` the transcript events so far, in order.
NoPoly == [some |-> FALSE, v |-> <<>>]
SomePoly(poly) == [some |-> TRUE, v |-> poly]
Zeros(n) == [i \in 1..n |-> 0]

CreateEntry(in) ==
  [pc |-> "x4", transcript |-> in.transcript, transcript_scalar |-> in.transcript_scalar,
   x_4 |-> 0, q_polys |-> <<>>, q_blinds |-> <<>>, q_evals |-> <<>>, next |-> 1,
   x_5 |-> 0, f_poly |-> <<>>, f_blind |-> 0, f_commitment |-> 0, attempts |-> 0,
   t |-> <<>>, ts |-> <<>>, x_6 |-> 0, evals6 |-> <<>>, x_7 |-> 0,
   f_blind_dup |-> 0, f_poly_dup |-> <<>>, events |-> <<>>,
   proof |-> [q_evals |-> <<>>, f_commitment |-> 0,
              opening |-> [poly |-> <<>>, blind |-> 0, point |-> 0]]]

\* get_challenge_scalar(Challenge(transcript.squeeze().get_lower_128())).
SqueezeChallenge(h, seed) ==
  Challenge128GetScalar(GetLower128(HSqueezeOut(h, seed, BaseModulus)))

\* prover.rs 44-50: x_4 is derived and the accumulators are set up.
Create_x4(c, in) ==
  [c EXCEPT !.x_4 = SqueezeChallenge(c.transcript, in.seed),
            !.transcript = HSqueeze(@),
            !.q_polys = [i \in 1..Len(in.points) |-> NoPoly],
            !.q_blinds = Zeros(Len(in.points)),
            !.q_evals = Zeros(Len(in.points)),
            !.events = Append(@, "x4"),
            !.pc = "accumulate"]

\* Mutant: the evaluation is added without the accumulator being multiplied.
Accumulate_eval_unscaled(c, instance) ==
  LET i == instance.point_index + 1 IN
  [c EXCEPT !.q_polys[i] = IF @.some THEN SomePoly(Parallelize(@.v, instance.poly, c.x_4))
                           ELSE SomePoly(instance.poly),
            !.q_blinds[i] = FAdd(FMul(@, c.x_4), instance.blind),
            !.q_evals[i] = FAdd(@, instance.eval)]

\* prover.rs 52-72, the closure `accumulate`.
Accumulate(c, instance) ==
  LET i == instance.point_index + 1 IN
  [c EXCEPT !.q_polys[i] = IF @.some THEN SomePoly(Parallelize(@.v, instance.poly, c.x_4))
                           ELSE SomePoly(instance.poly),
            !.q_blinds[i] = FAdd(FMul(@, c.x_4), instance.blind),
            !.q_evals[i] = FAdd(FMul(@, c.x_4), instance.eval)]

\* prover.rs 74-81: one turn of the loop over the instances.
Create_accumulate(c, in) ==
  [Accumulate(c, in.instances[c.next]) EXCEPT !.next = @ + 1]

\* prover.rs 84: x_5 is derived.
Create_x5(c, in) ==
  [c EXCEPT !.x_5 = SqueezeChallenge(c.transcript, in.seed),
            !.transcript = HSqueeze(@),
            !.events = Append(@, "x5"),
            !.pc = "f_poly"]

\* prover.rs 87-109: the witness polynomial of point i, and f_poly after the
\* points i..n, given f_poly (None or Some) before them.
WitnessPoly(c, in, i) ==
  LET poly == [c.q_polys[i].v EXCEPT ![1] = FSub(@, c.q_evals[i])]
  IN  Append(KateDivision(poly, in.points[i]), 0)

\* Mutant: the witness polynomials are folded with x_4.
RECURSIVE FPolyLoop_x4(_, _, _, _)
FPolyLoop_x4(c, in, i, f) ==
  IF i > Len(in.points) THEN f
  ELSE LET poly == WitnessPoly(c, in, i)
       IN  FPolyLoop_x4(c, in, i + 1,
                        IF f.some THEN SomePoly(Parallelize(f.v, poly, c.x_4))
                        ELSE SomePoly(poly))

RECURSIVE FPolyLoop(_, _, _, _)
FPolyLoop(c, in, i, f) ==
  IF i > Len(in.points) THEN f
  ELSE LET poly == WitnessPoly(c, in, i)
       IN  FPolyLoop(c, in, i + 1,
                     IF f.some THEN SomePoly(Parallelize(f.v, poly, c.x_5))
                     ELSE SomePoly(poly))

\* prover.rs 86-113: f_poly, its blind `random` and its commitment.  An
\* unwrap of a q_poly no instance set, or of f_poly with no point, panics.
Create_f_poly(c, in, random) ==
  IF (\E i \in 1..Len(in.points) : ~c.q_polys[i].some) \/ in.points = <<>>
  THEN [c EXCEPT !.pc = "panic"]
  ELSE LET f == FPolyLoop(c, in, 1, NoPoly).v IN
       [c EXCEPT !.f_poly = f,
                 !.f_blind = random,
                 !.f_commitment = Commit(Params, f, random),
                 !.pc = "attempt"]

\* Mutant: x_6 is squeezed before f_commitment is absorbed.
Attempt_x6_early(c, in) ==
  LET hp == HashPoint(HSqueeze(c.transcript), c.f_commitment) IN
  IF ~hp.ok THEN [c EXCEPT !.pc = "panic"]
  ELSE [c EXCEPT !.t = hp.h,
                 !.ts = c.transcript_scalar,
                 !.x_6 = SqueezeChallenge(c.transcript, in.seed),
                 !.events = @ \o <<"x6", "absorb_f_commitment">>,
                 !.pc = "evals"]

\* Mutant: f_commitment is absorbed into the caller's transcript, which x_6
\* is squeezed from.
Attempt_x6_on_caller(c, in) ==
  LET hp == HashPoint(c.transcript, c.f_commitment) IN
  IF ~hp.ok THEN [c EXCEPT !.pc = "panic"]
  ELSE [c EXCEPT !.transcript = HSqueeze(hp.h),
                 !.t = HSqueeze(hp.h),
                 !.ts = c.transcript_scalar,
                 !.x_6 = SqueezeChallenge(hp.h, in.seed),
                 !.events = @ \o <<"absorb_f_commitment", "x6">>,
                 !.pc = "evals"]

\* prover.rs 116-121: the clones, f_commitment absorbed, x_6 derived.
Attempt_x6(c, in) ==
  LET hp == HashPoint(c.transcript, c.f_commitment) IN
  IF ~hp.ok THEN [c EXCEPT !.pc = "panic"]
  ELSE [c EXCEPT !.t = HSqueeze(hp.h),
                 !.ts = c.transcript_scalar,
                 !.x_6 = SqueezeChallenge(hp.h, in.seed),
                 !.events = @ \o <<"absorb_f_commitment", "x6">>,
                 !.pc = "evals"]

RECURSIVE AbsorbAll(_, _)
AbsorbAll(h, vs) == IF vs = <<>> THEN h ELSE AbsorbAll(HAbsorb(h, Head(vs)), Tail(vs))

\* Mutant: the evaluations are absorbed into the caller's scalar transcript.
Attempt_evals_shared(c, in) ==
  LET n == Len(in.points)
      evals == [i \in 1..n |-> EvalPolynomial(c.q_polys[i].v, c.x_6)]
      ts1 == AbsorbAll(c.transcript_scalar, evals)
      out == HSqueezeOut(ts1, in.seed, ScalarModulus)
      point == FromBytes(ToBytes(out), BaseModulus)
      c1 == [c EXCEPT !.evals6 = evals,
                      !.ts = HSqueeze(ts1),
                      !.transcript_scalar = HSqueeze(ts1),
                      !.events = @ \o [i \in 1..n |-> "absorb_eval"] \o <<"squeeze_scalar">>]
  IN  IF ~point.some THEN [c1 EXCEPT !.pc = "panic"]
      ELSE [c1 EXCEPT !.t = HAbsorb(@, point.v),
                      !.events = Append(@, "absorb_scalar_out"),
                      !.pc = "x7"]

\* prover.rs 123-136: the evaluations at x_6 go to the scalar transcript, whose
\* output goes, through its bytes, to the main transcript.
Attempt_evals(c, in) ==
  LET n == Len(in.points)
      evals == [i \in 1..n |-> EvalPolynomial(c.q_polys[i].v, c.x_6)]
      ts1 == AbsorbAll(c.ts, evals)
      out == HSqueezeOut(ts1, in.seed, ScalarModulus)
      point == FromBytes(ToBytes(out), BaseModulus)
      c1 == [c EXCEPT !.evals6 = evals,
                      !.ts = HSqueeze(ts1),
                      !.events = @ \o [i \in 1..n |-> "absorb_eval"] \o <<"squeeze_scalar">>]
  IN  IF ~point.some THEN [c1 EXCEPT !.pc = "panic"]
      ELSE [c1 EXCEPT !.t = HAbsorb(@, point.v),
                      !.events = Append(@, "absorb_scalar_out"),
                      !.pc = "x7"]

\* Mutant: the blinds are added up without the multiplication by x_7.
RECURSIVE FoldX7_blind_sum(_, _, _, _)
FoldX7_blind_sum(c, i, blind, poly) ==
  IF i > Len(c.q_polys) THEN [blind |-> blind, poly |-> poly]
  ELSE FoldX7_blind_sum(c, i + 1, FAdd(blind, c.q_blinds[i]),
                        Parallelize(poly, c.q_polys[i].v, c.x_7))

\* prover.rs 141-156: the fold of the blinds and of the polynomials with x_7.
RECURSIVE FoldX7(_, _, _, _)
FoldX7(c, i, blind, poly) ==
  IF i > Len(c.q_polys) THEN [blind |-> blind, poly |-> poly]
  ELSE FoldX7(c, i + 1, FAdd(FMul(blind, c.x_7), c.q_blinds[i]),
              Parallelize(poly, c.q_polys[i].v, c.x_7))

\* prover.rs 138-156: x_7 is derived and the final polynomial and blind folded.
Attempt_x7(c, in) ==
  LET c1 == [c EXCEPT !.x_7 = SqueezeChallenge(c.t, in.seed),
                      !.t = HSqueeze(@),
                      !.events = Append(@, "x7")]
      f == FoldX7(c1, 1, c1.f_blind, c1.f_poly)
  IN  [c1 EXCEPT !.f_blind_dup = f.blind, !.f_poly_dup = f.poly, !.pc = "open"]

\* Mutant: the proof is given the aggregate evaluations of step 1.
Attempt_open_outer_evals(c, in, ok) ==
  LET c1 == [c EXCEPT !.t = Append(@, HOpeningItem), !.events = Append(@, "open")] IN
  IF ok
  THEN [c1 EXCEPT !.proof = [q_evals |-> c.q_evals, f_commitment |-> c.f_commitment,
                             opening |-> [poly |-> c.f_poly_dup, blind |-> c.f_blind_dup,
                                          point |-> c.x_6]],
                  !.pc = "done"]
  ELSE [c1 EXCEPT !.f_blind = FAdd(@, 1),
                  !.f_commitment = FAdd(@, Params.h),
                  !.attempts = @ + 1,
                  !.pc = "attempt"]

\* Mutant: a failure of the opening is handed to the caller.
Attempt_open_give_up(c, in, ok) ==
  LET c1 == [c EXCEPT !.t = Append(@, HOpeningItem), !.events = Append(@, "open")] IN
  IF ok
  THEN [c1 EXCEPT !.proof = [q_evals |-> c.evals6, f_commitment |-> c.f_commitment,
                             opening |-> [poly |-> c.f_poly_dup, blind |-> c.f_blind_dup,
                                          point |-> c.x_6]],
                  !.pc = "done"]
  ELSE [c1 EXCEPT !.pc = "error"]

\* Mutant: after a failure the blind is shifted and the commitment is not.
Attempt_open_blind_only(c, in, ok) ==
  LET c1 == [c EXCEPT !.t = Append(@, HOpeningItem), !.events = Append(@, "open")] IN
  IF ok
  THEN [c1 EXCEPT !.proof = [q_evals |-> c.evals6, f_commitment |-> c.f_commitment,
                             opening |-> [poly |-> c.f_poly_dup, blind |-> c.f_blind_dup,
                                          point |-> c.x_6]],
                  !.pc = "done"]
  ELSE [c1 EXCEPT !.f_blind = FAdd(@, 1),
                  !.attempts = @ + 1,
                  !.pc = "attempt"]

\* prover.rs 158-172: the single-point opening, which works on the clone, and
\* whose outcome `ok` is the opening primitive's.
Attempt_open(c, in, ok) ==
  LET c1 == [c EXCEPT !.t = Append(@, HOpeningItem), !.events = Append(@, "open")] IN
  IF ok
  THEN [c1 EXCEPT !.proof = [q_evals |-> c.evals6, f_commitment |-> c.f_commitment,
                             opening |-> [poly |-> c.f_poly_dup, blind |-> c.f_blind_dup,
                                          point |-> c.x_6]],
                  !.pc = "done"]
  ELSE [c1 EXCEPT !.f_blind = FAdd(@, 1),
                  !.f_commitment = FAdd(@, Params.h),
                  !.attempts = @ + 1,
                  !.pc = "attempt"]

\* ------------------------------------------- construct_intermediate_sets
\* A polynomial is known by its identity, `id`, which stands for its address:
\* std::ptr::eq compares addresses, not coefficients.
PtrEq(a, b) == a.id = b.id

\* BTreeMap as a function on the keys it holds.
EmptyMap == [k \in {} |-> 0]
MapLen(map) == Cardinality(DOMAIN map)
\* map.entry(key).or_insert(value)
OrInsert(map, key, value) == IF key \in DOMAIN map THEN map ELSE (key :> value) @@ map

\* The elements of a BTreeSet<usize> in the order of its iterator.
RECURSIVE Ascending(_)
Ascending(set) ==
  IF set = {} THEN <<>>
  ELSE LET least == CHOOSE a \in set : \A b \in set : a <= b
       IN  <<least>> \o Ascending(set \ {least})
\* position(|i| i == x), counted from 0; the unwrap panics when there is none.
Position(seq, x) == (CHOOSE k \in 1..Len(seq) : seq[k] = x /\ \A j \in 1..(k - 1) : seq[j] # x) - 1

CommitmentData(set_index, blind, point_indices, evals) ==
  [set_index |-> set_index, blind |-> blind, point_indices |-> point_indices, evals |-> evals]

\* prover.rs 186-192: the state before the first loop.
SetsEntry ==
  [pc |-> "queries", k |-> 1, poly_map |-> <<>>, point_index_map |-> EmptyMap,
   inverse_point_index_map |-> EmptyMap, point_idx_sets |-> EmptyMap,
   poly_set_map |-> <<>>, point_sets |-> <<>>]

\* Mutant: a point is given the number of queries seen so far as its index.
Sets_query_by_count(c, query) ==
  LET map == OrInsert(c.point_index_map, query.point, c.k - 1)
      point_idx == map[query.point]
      exists == \E j \in 1..Len(c.poly_map) : PtrEq(query.poly, c.poly_map[j].poly)
  IN  [c EXCEPT
         !.point_index_map = map,
         !.poly_map =
            IF exists
            THEN [j \in 1..Len(c.poly_map) |->
                    IF PtrEq(query.poly, c.poly_map[j].poly)
                    THEN [c.poly_map[j] EXCEPT !.data.point_indices = Append(@, point_idx)]
                    ELSE c.poly_map[j]]
            ELSE Append(c.poly_map,
                        [poly |-> query.poly,
                         data |-> CommitmentData(0, query.blind, <<point_idx>>, <<>>)]),
         !.k = @ + 1]

\* Mutant: two polynomials are the same when their coefficients are.
Sets_query_by_coeffs(c, query) ==
  LET num_points == MapLen(c.point_index_map)
      map == OrInsert(c.point_index_map, query.point, num_points)
      point_idx == map[query.point]
      exists == \E j \in 1..Len(c.poly_map) : query.poly.coeffs = c.poly_map[j].poly.coeffs
  IN  [c EXCEPT
         !.point_index_map = map,
         !.poly_map =
            IF exists
            THEN [j \in 1..Len(c.poly_map) |->
                    IF query.poly.coeffs = c.poly_map[j].poly.coeffs
                    THEN [c.poly_map[j] EXCEPT !.data.point_indices = Append(@, point_idx)]
                    ELSE c.poly_map[j]]
            ELSE Append(c.poly_map,
                        [poly |-> query.poly,
                         data |-> CommitmentData(0, query.blind, <<point_idx>>, <<>>)]),
         !.k = @ + 1]

\* prover.rs 194-216: one turn of the first loop over the queries.
Sets_query(c, query) ==
  LET num_points == MapLen(c.point_index_map)
      map == OrInsert(c.point_index_map, query.point, num_points)
      point_idx == map[query.point]
      exists == \E j \in 1..Len(c.poly_map) : PtrEq(query.poly, c.poly_map[j].poly)
  IN  [c EXCEPT
         !.point_index_map = map,
         !.poly_map =
            IF exists
            THEN [j \in 1..Len(c.poly_map) |->
                    IF PtrEq(query.poly, c.poly_map[j].poly)
                    THEN [c.poly_map[j] EXCEPT !.data.point_indices = Append(@, point_idx)]
                    ELSE c.poly_map[j]]
            ELSE Append(c.poly_map,
                        [poly |-> query.poly,
                         data |-> CommitmentData(0, query.blind, <<point_idx>>, <<>>)]),
         !.k = @ + 1]

\* prover.rs 218-222: the inverse of point_index_map.
Sets_inverse(c) ==
  [c EXCEPT !.inverse_point_index_map =
              [i \in {c.point_index_map[pt] : pt \in DOMAIN c.point_index_map} |->
                 CHOOSE pt \in DOMAIN c.point_index_map : c.point_index_map[pt] = i],
            !.pc = "polys", !.k = 1]

\* Mutant: the number of sets is taken once, before the loop.
Sets_poly_stale_count(c) ==
  LET entry == c.poly_map[c.k]
      point_index_set == {entry.data.point_indices[j] : j \in 1..Len(entry.data.point_indices)}
  IN  [c EXCEPT !.poly_set_map = Append(@, [poly |-> entry.poly, set |-> point_index_set]),
                !.point_idx_sets = OrInsert(@, point_index_set, 0),
                !.k = @ + 1]

\* Mutant: a new set is given the place of its polynomial in poly_map.
Sets_poly_by_place(c) ==
  LET entry == c.poly_map[c.k]
      point_index_set == {entry.data.point_indices[j] : j \in 1..Len(entry.data.point_indices)}
  IN  [c EXCEPT !.poly_set_map = Append(@, [poly |-> entry.poly, set |-> point_index_set]),
                !.point_idx_sets = OrInsert(@, point_index_set, c.k - 1),
                !.k = @ + 1]

\* prover.rs 229-243: one turn of the loop over poly_map.
Sets_poly(c) ==
  LET entry == c.poly_map[c.k]
      point_index_set == {entry.data.point_indices[j] : j \in 1..Len(entry.data.point_indices)}
      num_sets == MapLen(c.point_idx_sets)
  IN  [c EXCEPT !.poly_set_map = Append(@, [poly |-> entry.poly, set |-> point_index_set]),
                !.point_idx_sets = OrInsert(@, point_index_set, num_sets),
                !.k = @ + 1]

\* prover.rs 245-249: the evaluations start as zeros, one for every entry of
\* point_indices.
Sets_init_evals(c) ==
  [c EXCEPT !.poly_map =
              [j \in 1..Len(c.poly_map) |->
                 [c.poly_map[j] EXCEPT !.data.evals = Zeros(Len(c.poly_map[j].data.point_indices))]],
            !.pc = "populate", !.k = 1]

\* The set of the last entry of poly_set_map for the polynomial, the empty set
\* when there is none (prover.rs 257-262).
RECURSIVE SetOfPoly(_, _, _)
SetOfPoly(poly_set_map, poly, found) ==
  IF poly_set_map = <<>> THEN found
  ELSE SetOfPoly(Tail(poly_set_map), poly,
                 IF PtrEq(poly, Head(poly_set_map).poly) THEN Head(poly_set_map).set ELSE found)

\* Mutant: the evaluation is put at the place of the query's point in
\* point_indices, the order in which the queries arrived.
Sets_populate_arrival(c, query) ==
  LET point_index == c.point_index_map[query.point]
      point_index_set == SetOfPoly(c.poly_set_map, query.poly, {})
      set_index == c.point_idx_sets[point_index_set]
  IN  [c EXCEPT !.poly_map =
                  [j \in 1..Len(c.poly_map) |->
                     IF PtrEq(query.poly, c.poly_map[j].poly)
                     THEN [c.poly_map[j] EXCEPT
                             !.data.set_index = set_index,
                             !.data.evals[Position(c.poly_map[j].data.point_indices, point_index) + 1] =
                                query.eval]
                     ELSE c.poly_map[j]],
                !.k = @ + 1]

\* prover.rs 252-286: one turn of the second loop over the queries.
Sets_populate(c, query) ==
  LET point_index == c.point_index_map[query.point]
      point_index_set == SetOfPoly(c.poly_set_map, query.poly, {})
      set_index == c.point_idx_sets[point_index_set]
      point_index_in_set == Position(Ascending(point_index_set), point_index)
  IN  [c EXCEPT !.poly_map =
                  [j \in 1..Len(c.poly_map) |->
                     IF PtrEq(query.poly, c.poly_map[j].poly)
                     THEN [c.poly_map[j] EXCEPT !.data.set_index = set_index,
                                                !.data.evals[point_index_in_set + 1] = query.eval]
                     ELSE c.poly_map[j]],
                !.k = @ + 1]

\* The order of BTreeSet<usize>, that of the ascending sequences of elements.
RECURSIVE SeqLess(_, _)
SeqLess(a, b) ==
  IF b = <<>> THEN FALSE
  ELSE IF a = <<>> THEN TRUE
  ELSE IF Head(a) # Head(b) THEN Head(a) < Head(b)
  ELSE SeqLess(Tail(a), Tail(b))
\* The keys of point_idx_sets in the order of the map's iterator.
RECURSIVE KeysInOrder(_)
KeysInOrder(keys) ==
  IF keys = {} THEN <<>>
  ELSE LET least == CHOOSE a \in keys :
                      \A b \in keys \ {a} : SeqLess(Ascending(a), Ascending(b))
       IN  <<least>> \o KeysInOrder(keys \ {least})
\* Mutant: the points of a set are pushed from the highest index down.
RECURSIVE PushPoints_descending(_, _, _)
PushPoints_descending(c, keys, point_sets) ==
  IF keys = <<>> THEN point_sets
  ELSE LET idx == Ascending(Head(keys))
           points == [j \in 1..Len(idx) |-> c.inverse_point_index_map[idx[Len(idx) + 1 - j]]]
       IN  PushPoints_descending(c, Tail(keys),
                      [point_sets EXCEPT ![c.point_idx_sets[Head(keys)] + 1] = @ \o points])

\* point_sets after the sets `keys` are gone through (prover.rs 290-295).
RECURSIVE PushPoints(_, _, _)
PushPoints(c, keys, point_sets) ==
  IF keys = <<>> THEN point_sets
  ELSE LET idx == Ascending(Head(keys))
           points == [j \in 1..Len(idx) |-> c.inverse_point_index_map[idx[j]]]
       IN  PushPoints(c, Tail(keys),
                      [point_sets EXCEPT ![c.point_idx_sets[Head(keys)] + 1] = @ \o points])

\* prover.rs 288-297: the points of every set, and the return; an index
\* beyond point_sets panics.
Sets_point_sets(c) ==
  LET len == MapLen(c.point_idx_sets) IN
  IF \E key \in DOMAIN c.point_idx_sets : c.point_idx_sets[key] >= len
  THEN [c EXCEPT !.pc = "panic"]
  ELSE [c EXCEPT !.point_sets =
                   PushPoints(c, KeysInOrder(DOMAIN c.point_idx_sets), [s \in 1..len |-> <<>>]),
                 !.pc = "done"]

\* ------------------------------------------------------ one proof session
\* The prover drives a Blake2bWrite `tw` through up to MaxOps calls, finalizes
\* it, and the verifier drives a Blake2bRead `tr`, initialised on the buffer,
\* through the mirrored calls.  `tw2` is a second Blake2bWrite, initialised like
\* `tw`, that is given the same calls, except that two consecutive absorbs may be
\* exchanged on it once: `swap.at` is the place of the first of the two in wlog.
\* `oracle` is the hash function as far as it is known.
VARIABLES tw, tw2, tr, oracle, wlog, w2log, rlog, phase, swap, mode

tvars == <<tw, tw2, tr, oracle, wlog, w2log, rlog, phase, swap, mode>>

\* `inp` is what Proof::create was called with and `cr` is where the call is.
VARIABLES cr, inp

cvars == <<cr, inp>>

\* `queries` is what construct_intermediate_sets was called with and `cs` is
\* where the call is.
VARIABLES cs, queries

svars == <<cs, queries>>

\* The other operations of the library are called one at a time: each has a
\* variable that says where its call is, and is idle in the runs of the others.
VARIABLES ch, msm, par, sponge, bi, duplex, perm

fvars == <<ch, msm, par, sponge, bi, duplex, perm>>
NoCall == [pc |-> "idle"]
FIdleBut(v) ==
  /\ (v # "ch" => ch = NoCall)
  /\ (v # "msm" => msm = NoCall)
  /\ (v # "par" => par = NoCall)
  /\ (v # "sponge" => sponge = NoCall)
  /\ (v # "bi" => bi = NoCall)
  /\ (v # "duplex" => duplex = NoCall)
  /\ (v # "perm" => perm = NoCall)
\* All the variables but the one of the operation that is running.
butCh == <<tw, tw2, tr, oracle, wlog, w2log, rlog, phase, swap, mode, cr, inp, cs, queries,
  msm, par, sponge, bi, duplex, perm>>
butMsm == <<tw, tw2, tr, oracle, wlog, w2log, rlog, phase, swap, mode, cr, inp, cs, queries,
  ch, par, sponge, bi, duplex, perm>>
butPar == <<tw, tw2, tr, oracle, wlog, w2log, rlog, phase, swap, mode, cr, inp, cs, queries,
  ch, msm, sponge, bi, duplex, perm>>
butSponge == <<tw, tw2, tr, oracle, wlog, w2log, rlog, phase, swap, mode, cr, inp, cs, queries,
  ch, msm, par, bi, duplex, perm>>
butBi == <<tw, tw2, tr, oracle, wlog, w2log, rlog, phase, swap, mode, cr, inp, cs, queries,
  ch, msm, par, sponge, duplex, perm>>
butDuplex == <<tw, tw2, tr, oracle, wlog, w2log, rlog, phase, swap, mode, cr, inp, cs, queries,
  ch, msm, par, sponge, bi, perm>>
butPerm == <<tw, tw2, tr, oracle, wlog, w2log, rlog, phase, swap, mode, cr, inp, cs, queries,
  ch, msm, par, sponge, bi, duplex>>
FIdle == FIdleBut("none")

Scalars == {2, 9}
Points == {Affine(2, 2), Affine(1, 5), Identity}
CommonScalars == {2}
CommonPoints == {Affine(2, 2), Identity}

Call(op, arg) == [op |-> op, arg |-> arg]
ProverCalls ==
  {Call("write_scalar", ScalarValue(s)) : s \in Scalars}
  \cup {Call("write_point", PointValue(p)) : p \in Points}
  \cup {Call("common_scalar", ScalarValue(s)) : s \in CommonScalars}
  \cup {Call("common_point", PointValue(p)) : p \in CommonPoints}
  \cup {Call("squeeze_challenge", NoValue)}

\* A call on a Blake2bWrite.
WriteApply(t, orc, c) ==
  CASE c.op = "write_scalar" -> Write_write_scalar(t, c.arg.s)
    [] c.op = "write_point" -> Write_write_point(t, c.arg.p)
    [] c.op = "common_scalar" -> Write_common_scalar(t, c.arg.s)
    [] c.op = "common_point" -> Write_common_point(t, c.arg.p)
    [] c.op = "squeeze_challenge" -> Write_squeeze_challenge(t, orc)

\* A call on a Blake2bRead.
ReadApply(t, orc, c, drained) ==
  CASE c.op = "read_scalar" -> Read_read_scalar(t, drained)
    [] c.op = "read_point" -> Read_read_point(t, drained)
    [] c.op = "common_scalar" -> Read_common_scalar(t, c.arg.s)
    [] c.op = "common_point" -> Read_common_point(t, c.arg.p)
    [] c.op = "squeeze_challenge" -> Read_squeeze_challenge(t, orc)

\* The hash function after a call on a transcript in state `t`.
OracleAfter(orc, t, c) ==
  IF c.op = "squeeze_challenge" THEN OracleAdd(orc, t.state) ELSE orc

Entry(c, r) == [op |-> c.op, arg |-> c.arg, ok |-> r.ok, out |-> r.value]

IsAbsorb(c) == c.op \in {"write_scalar", "write_point", "common_scalar", "common_point"}

\* The verifier's call for a call of the prover: a read for every write of a
\* scalar or of a point with coordinates, the same call otherwise.
MirrorOf(e) ==
  CASE e.op = "write_scalar" -> Call("read_scalar", e.arg)
    [] e.op = "write_point" -> Call("read_point", e.arg)
    [] OTHER -> Call(e.op, e.arg)
IsMirrored(e) == ~(e.op = "write_point" /\ e.arg.p.inf)
RECURSIVE Mirror(_)
Mirror(log) ==
  IF log = <<>> THEN <<>>
  ELSE IF IsMirrored(Head(log)) THEN <<MirrorOf(Head(log))>> \o Mirror(Tail(log))
  ELSE Mirror(Tail(log))

\* What reaches the verifier: the prover's buffer, or the buffer without its
\* last byte, with its last field element made non-canonical, or made zero.
Modes == {"honest", "truncated", "noncanonical", "zeroed"}
Tamper(m, buf) ==
  LET n == Len(buf) IN
  CASE m = "honest" -> buf
    [] m = "truncated" -> SubSeq(buf, 1, n - 1)
    [] m = "noncanonical" ->
         [i \in 1..n |-> IF i > n - ReprLen THEN ByteBase - 1 ELSE buf[i]]
    [] m = "zeroed" -> [i \in 1..n |-> IF i > n - ReprLen THEN 0 ELSE buf[i]]

\* The writers of a session: a Vec<u8>, cursors over slices of no byte and of
\* MaxRoom bytes, and writers that fail in their first or in their second
\* call of write_all, after one byte, and work from then on.
MaxRoom == 3
Writers ==
  {VecWriter} \cup {Writer(<<>>, Some(n)) : n \in {0, MaxRoom}}
    \cup {FailingWriter(takes) : takes \in {<<1>>, <<2 * ReprLen, 1>>}}

TInitOn(writer, C) ==
  /\ tw = Blake2bWriteInit(writer, C)
  /\ tw2 = Blake2bWriteInit(writer, C)
  /\ tr = Blake2bReadInit(<<>>, C)
  /\ oracle = <<>>
  /\ wlog = <<>>
  /\ w2log = <<>>
  /\ rlog = <<>>
  /\ phase = "prove"
  /\ swap = [st |-> "none", at |-> 0]
  /\ mode = "honest"
TInit == TInitOn(VecWriter, "coordinates")

\* The prover makes a call; the second transcript is given the same call.
ProverCall ==
  \E c \in ProverCalls :
    LET r == WriteApply(tw, oracle, c)
        orc1 == OracleAfter(oracle, tw, c)
        r2 == WriteApply(tw2, orc1, c)
    IN  /\ phase = "prove" /\ Len(wlog) < MaxOps /\ swap.st # "held"
        /\ tw' = r.t
        /\ wlog' = Append(wlog, Entry(c, r))
        /\ tw2' = r2.t
        /\ w2log' = Append(w2log, Entry(c, r2))
        /\ oracle' = OracleAfter(orc1, tw2, c)
        /\ UNCHANGED <<tr, rlog, phase, swap, mode, cvars, svars, fvars>>

\* The prover absorbs an element; the second transcript is to absorb it after
\* the next one.
ProverCallHeld ==
  \E c \in ProverCalls :
    LET r == WriteApply(tw, oracle, c) IN
        /\ phase = "prove" /\ Len(wlog) + 1 < MaxOps /\ swap.st = "none"
        /\ IsAbsorb(c) /\ r.ok
        /\ tw' = r.t
        /\ wlog' = Append(wlog, Entry(c, r))
        /\ swap' = [st |-> "held", at |-> Len(wlog) + 1]
        /\ UNCHANGED <<tw2, w2log, oracle, tr, rlog, phase, mode, cvars, svars, fvars>>

\* The prover absorbs the next element; the second transcript absorbs it, and
\* then the element held back.
ProverCallSwapped ==
  \E c \in ProverCalls :
    LET r == WriteApply(tw, oracle, c)
        held == Call(wlog[Len(wlog)].op, wlog[Len(wlog)].arg)
        r2 == WriteApply(tw2, oracle, c)
        r3 == WriteApply(r2.t, oracle, held)
    IN  /\ phase = "prove" /\ swap.st = "held"
        /\ IsAbsorb(c) /\ r.ok
        /\ tw' = r.t
        /\ wlog' = Append(wlog, Entry(c, r))
        /\ tw2' = r3.t
        /\ w2log' = w2log \o <<Entry(c, r2), Entry(held, r3)>>
        /\ swap' = [swap EXCEPT !.st = "done"]
        /\ UNCHANGED <<oracle, tr, rlog, phase, mode, cvars, svars, fvars>>

\* Blake2bWrite::finalize, and Blake2bRead::init on what reaches the verifier.
Finalize_ ==
  \E m \in Modes :
    LET buf == Write_finalize(tw).buf IN
        /\ phase = "prove" /\ swap.st # "held"
        /\ m # "honest" => Tamper(m, buf) # buf
        /\ tr' = Blake2bReadInit(Tamper(m, buf), tw.marker_c)
        /\ mode' = m
        /\ phase' = "verify"
        /\ UNCHANGED <<tw, tw2, oracle, wlog, w2log, rlog, swap, cvars, svars, fvars>>

\* The verifier makes its next call.
VerifierCall ==
  \E drained \in BOOLEAN :
    LET calls == Mirror(wlog)
        c == calls[Len(rlog) + 1]
        r == ReadApply(tr, oracle, c, drained)
    IN  /\ phase = "verify" /\ Len(rlog) < Len(calls)
        /\ tr' = r.t
        /\ rlog' = Append(rlog, Entry(c, r))
        /\ oracle' = OracleAfter(oracle, tr, c)
        /\ UNCHANGED <<tw, tw2, wlog, w2log, phase, swap, mode, cvars, svars, fvars>>

TNext == ProverCall \/ ProverCallHeld \/ ProverCallSwapped \/ Finalize_ \/ VerifierCall

\* ------------------------------------------------- one call of Proof::create
\* The evaluation points, and the polynomials of the domain's size with their
\* blinds.
EvalPoints == <<2, 5>>
PolyP == [poly |-> <<1, 2, 3>>, blind |-> 3]
PolyQ == [poly |-> <<4, 0, 5>>, blind |-> 6]

Instance(i, p, eval) ==
  [point_index |-> i, poly |-> p.poly, blind |-> p.blind, eval |-> eval]

\* The instances a caller may hand over: a polynomial at a point with its
\* evaluation there, or, for one of them, with another value.
InstanceChoices ==
  {Instance(i, p, EvalPolynomial(p.poly, EvalPoints[i + 1])) :
     i \in 0..(Len(EvalPoints) - 1), p \in {PolyP, PolyQ}}
  \cup {Instance(0, PolyQ, FAdd(EvalPolynomial(PolyQ.poly, EvalPoints[1]), 1))}

Seeds == {1, 2, 4}
Randoms == {1, 4}

Inputs ==
  [points : {EvalPoints},
   instances : UNION {[1..n -> InstanceChoices] : n \in 1..MaxInstances},
   transcript : {<<>>},
   transcript_scalar : {<<>>},
   seed : Seeds]

IdleInput ==
  [points |-> <<>>, instances |-> <<>>, transcript |-> <<>>,
   transcript_scalar |-> <<>>, seed |-> 0]
SIdle ==
  /\ queries = <<>>
  /\ cs = [SetsEntry EXCEPT !.pc = "idle"]

CIdle ==
  /\ inp = IdleInput
  /\ cr = [CreateEntry(IdleInput) EXCEPT !.pc = "idle"]

CInit ==
  /\ TInit /\ SIdle /\ FIdle
  /\ inp \in Inputs
  /\ cr = CreateEntry(inp)

Step_x4 ==
  /\ cr.pc = "x4"
  /\ cr' = Create_x4(cr, inp)
  /\ UNCHANGED <<tvars, inp, svars, fvars>>

Step_accumulate ==
  /\ cr.pc = "accumulate" /\ cr.next <= Len(inp.instances)
  /\ cr' = Create_accumulate(cr, inp)
  /\ UNCHANGED <<tvars, inp, svars, fvars>>

Step_x5 ==
  /\ cr.pc = "accumulate" /\ cr.next > Len(inp.instances)
  /\ cr' = Create_x5(cr, inp)
  /\ UNCHANGED <<tvars, inp, svars, fvars>>

Step_f_poly ==
  \E random \in Randoms :
    /\ cr.pc = "f_poly"
    /\ cr' = Create_f_poly(cr, inp, random)
    /\ UNCHANGED <<tvars, inp, svars, fvars>>

Step_attempt_x6 ==
  /\ cr.pc = "attempt"
  /\ cr' = Attempt_x6(cr, inp)
  /\ UNCHANGED <<tvars, inp, svars, fvars>>

Step_attempt_evals ==
  /\ cr.pc = "evals"
  /\ cr' = Attempt_evals(cr, inp)
  /\ UNCHANGED <<tvars, inp, svars, fvars>>

Step_attempt_x7 ==
  /\ cr.pc = "x7"
  /\ cr' = Attempt_x7(cr, inp)
  /\ UNCHANGED <<tvars, inp, svars, fvars>>

\* The opening primitive succeeds or fails, and the loop has no bound: it goes
\* on for as long as the primitive fails.
Step_attempt_open ==
  \E ok \in BOOLEAN :
    /\ cr.pc = "open"
    /\ cr' = Attempt_open(cr, inp, ok)
    /\ UNCHANGED <<tvars, inp, svars, fvars>>

CNext ==
  \/ Step_x4 \/ Step_accumulate \/ Step_x5 \/ Step_f_poly
  \/ Step_attempt_x6 \/ Step_attempt_evals \/ Step_attempt_x7 \/ Step_attempt_open

\* ---------------------------------- one call of construct_intermediate_sets
\* Three polynomials, the third with the coefficients of the first, and the
\* queries a caller may make: a polynomial at a point with its value there, or,
\* for one of them, with another value.
PolyR == [poly |-> PolyP.poly, blind |-> 5]
Handle(name, p) == [id |-> name, coeffs |-> p.poly, blind |-> p.blind]
Handles == {Handle("P", PolyP), Handle("Q", PolyQ), Handle("R", PolyR)}
Query(h, point, eval) == [poly |-> h, point |-> point, blind |-> h.blind, eval |-> eval]
QueryChoices ==
  {Query(h, EvalPoints[i], EvalPolynomial(h.coeffs, EvalPoints[i])) :
     h \in Handles, i \in 1..Len(EvalPoints)}
  \cup {Query(Handle("Q", PolyQ), EvalPoints[1],
              FAdd(EvalPolynomial(PolyQ.poly, EvalPoints[1]), 1))}

SInit ==
  /\ TInit /\ CIdle /\ FIdle
  /\ queries \in UNION {[1..n -> QueryChoices] : n \in 1..MaxQueries}
  /\ cs = SetsEntry

SStep_query ==
  /\ cs.pc = "queries" /\ cs.k <= Len(queries)
  /\ cs' = Sets_query(cs, queries[cs.k])
  /\ UNCHANGED <<tvars, cvars, queries, fvars>>

SStep_inverse ==
  /\ cs.pc = "queries" /\ cs.k > Len(queries)
  /\ cs' = Sets_inverse(cs)
  /\ UNCHANGED <<tvars, cvars, queries, fvars>>

SStep_poly ==
  /\ cs.pc = "polys" /\ cs.k <= Len(cs.poly_map)
  /\ cs' = Sets_poly(cs)
  /\ UNCHANGED <<tvars, cvars, queries, fvars>>

SStep_init_evals ==
  /\ cs.pc = "polys" /\ cs.k > Len(cs.poly_map)
  /\ cs' = Sets_init_evals(cs)
  /\ UNCHANGED <<tvars, cvars, queries, fvars>>

SStep_populate ==
  /\ cs.pc = "populate" /\ cs.k <= Len(queries)
  /\ cs' = Sets_populate(cs, queries[cs.k])
  /\ UNCHANGED <<tvars, cvars, queries, fvars>>

SStep_point_sets ==
  /\ cs.pc = "populate" /\ cs.k > Len(queries)
  /\ cs' = Sets_point_sets(cs)
  /\ UNCHANGED <<tvars, cvars, queries, fvars>>

SNext ==
  \/ SStep_query \/ SStep_inverse \/ SStep_poly
  \/ SStep_init_evals \/ SStep_populate \/ SStep_point_sets

\* ------------------------------------------------- one call on a challenge
\* A Challenge255 is made of a digest and asked for its scalar; a Challenge128
\* is made of a base field element, or of a 128-bit value as the prover does
\* (get_challenge_scalar), and asked for its scalar.
Digests == [1..DigestLen -> 0..(ByteBase - 1)]
Values128 == 0..(Pow(4, EndoPairs) - 1)

ChInit ==
  /\ TInit /\ CIdle /\ SIdle /\ FIdleBut("ch")
  /\ ch \in [pc : {"new255"}, input : Digests]
         \cup [pc : {"new128"}, input : 0..(BaseModulus - 1)]
         \cup [pc : {"get128"}, c : Values128]

\* Challenge255::new (transcript.rs 317-322).
Ch255_new ==
  /\ ch.pc = "new255"
  /\ ch' = [pc |-> "get255", input |-> ch.input, stored |-> Challenge255New(ch.input)]
  /\ UNCHANGED butCh

\* Challenge255::get_scalar (transcript.rs 323-325): the unwrap panics when
\* the stored bytes do not decode.
Ch255_get_scalar ==
  /\ ch.pc = "get255"
  /\ ch' = IF FromBytes(ch.stored, ScalarModulus).some
           THEN [ch EXCEPT !.pc = "done255"] @@ [scalar |-> Challenge255GetScalar(ch.stored)]
           ELSE [ch EXCEPT !.pc = "panic"]
  /\ UNCHANGED butCh

\* Challenge128::new (transcript.rs 277-279).
Ch128_new ==
  /\ ch.pc = "new128"
  /\ ch' = [pc |-> "get128", c |-> GetLower128(ch.input)]
  /\ UNCHANGED butCh

\* Challenge128::get_scalar (transcript.rs 282-299).
Ch128_get_scalar ==
  /\ ch.pc = "get128"
  /\ ch' = [pc |-> "done128", c |-> ch.c, scalar |-> Challenge128GetScalar(ch.c)]
  /\ UNCHANGED butCh

ChNext == Ch255_new \/ Ch255_get_scalar \/ Ch128_new \/ Ch128_get_scalar

\* ------------------------------------------- multi-scalar multiplication
\* usize has UsizeBits bits and a u8 goes up to U8Max (64 bits and 255 in
\* the code, with U8Max beyond UsizeBits as there); DefaultSmallK is the
\* default of ICICLE_SMALL_K (8 in the code).
UsizeBits == 4
U8Max == 7
DefaultSmallK == 1

\* u8::from_str_radix of the text of a number: an error beyond u8::MAX.
ParseU8(n) == IF n <= U8Max THEN Some(n) ELSE None

\* should_use_cpu_msm (icicle.rs 20-23).  `setting` is env::var's result,
\* None when ICICLE_SMALL_K is absent.  The shift of 1usize by UsizeBits or
\* more panics in a build with overflow checks and takes the amount modulo
\* UsizeBits in a build without.
ShouldUseCpuMsm(setting, build, size) ==
  LET k == ParseU8(IF setting.some THEN setting.v ELSE DefaultSmallK) IN
  IF ~k.some THEN None
  ELSE IF k.v >= UsizeBits /\ build = "debug" THEN None
  ELSE Some(size <= Pow(2, k.v % UsizeBits))

\* The place of a point among the multiples of the generator, 0 for the
\* point at infinity.
IndexOf(point) ==
  IF point.inf THEN 0 ELSE CHOOSE k \in 1..Len(CurveMultiples) : CurveMultiples[k] = point
\* The CPU path: the sum of the multiples of the bases.
BestMultiexp(coeffs, bases) ==
  ToAffine(Msm(coeffs, [i \in 1..Len(bases) |-> IndexOf(bases[i])]))

\* u32_from_u8 (icicle.rs 25-36): the number the little-endian limbs denote.
U32FromU8(u8_arr) == FromLE(u8_arr)
\* repr_from_u32 (icicle.rs 38-42): from_repr of the limbs' bytes, unwrapped.
ReprFromU32(u32_arr) == FromBytes(ToBytes(u32_arr), BaseModulus)

\* A projective point of the accelerator's library; zero has z = 0.
Projective(x, y, z) == [x |-> x, y |-> y, z |-> z]
ProjectiveZero == Projective(0, 1, 0)
\* is_infinity_point (icicle.rs 44-47).
IsInfinityPoint(point) == ProjectiveZero.z = point.z

\* icicle_scalars_from_c (icicle.rs 49-56).
IcicleScalarsFromC(coeffs) == [i \in 1..Len(coeffs) |-> U32FromU8(ToBytes(coeffs[i]))]

\* The CurveAffine of icicle.rs is that of the halo2curves library (icicle.rs
\* 8), and a call is generic in the curve C.  C::coordinates of the point at
\* infinity is the library's: a curve gives None for it, or the coordinates
\* (0, 0) that c_from_icicle_point hands to C::from_xy for it.
InfinityCoordinates == {"none", "zero"}
CurveCoordinates(C, point) ==
  IF point.inf /\ C = "none" THEN [some |-> FALSE, x |-> 0, y |-> 0]
  ELSE [some |-> TRUE, x |-> point.x, y |-> point.y]

\* icicle_points_from_c (icicle.rs 58-79): None stands for the panic of
\* coordinates().unwrap().
IciclePointsFromC(C, bases) ==
  IF \E i \in 1..Len(bases) : ~CurveCoordinates(C, bases[i]).some THEN None
  ELSE Some([i \in 1..Len(bases) |->
               [x |-> U32FromU8(ToBytes(CurveCoordinates(C, bases[i]).x)),
                y |-> U32FromU8(ToBytes(CurveCoordinates(C, bases[i]).y))]])

\* Affine::to_projective and Affine::from of the accelerator's library.
ToProjective(affine) ==
  IF affine.x = 0 /\ affine.y = 0 THEN ProjectiveZero ELSE Projective(affine.x, affine.y, 1)
IcicleAffineFrom(point) == [x |-> point.x, y |-> point.y]

\* CurveAffine::from_xy: the point when it is on the curve, (0, 0) being the
\* point at infinity.
FromXY(x, y) ==
  IF x = 0 /\ y = 0 THEN Some(Identity)
  ELSE IF OnCurve(x, y) THEN Some(Affine(x, y)) ELSE None

\* c_from_icicle_point (icicle.rs 81-100): None stands for a panic of one of
\* the unwraps.
CFromIciclePoint(point) ==
  LET affine == IcicleAffineFrom(point)
      x == IF IsInfinityPoint(point) THEN ReprFromU32(0) ELSE ReprFromU32(affine.x)
      y == IF IsInfinityPoint(point) THEN ReprFromU32(0) ELSE ReprFromU32(affine.y)
  IN  IF ~x.some \/ ~y.some THEN None ELSE FromXY(x.v, y.v)

\* msm::msm of the accelerator's library, on points handed over as affine
\* coordinates: the sum, as a projective point.
DeviceMsm(coeffs, bases) ==
  LET sum == ToAffine(Msm(coeffs,
                          [i \in 1..Len(bases) |->
                             IF bases[i].x = 0 /\ bases[i].y = 0 THEN 0
                             ELSE IndexOf(Affine(bases[i].x, bases[i].y))]))
  IN  IF sum.inf THEN ProjectiveZero ELSE Projective(sum.x, sum.y, 1)

\* The call: the caller asks should_use_cpu_msm with the number of
\* coefficients and takes the CPU path or multiexp_on_device.
MsmEntry(setting, build, C, coeffs, bases) ==
  [pc |-> "select", setting |-> setting, build |-> build, curve |-> C,
   coeffs |-> coeffs, bases |-> bases,
   path |-> "none", icoeffs |-> <<>>, ibases |-> <<>>, msm_results |-> None,
   runtime_error |-> FALSE, host |-> ProjectiveZero, result |-> Identity]

Msm_select(c) ==
  LET use_cpu == ShouldUseCpuMsm(c.setting, c.build, Len(c.coeffs)) IN
  IF ~use_cpu.some THEN [c EXCEPT !.pc = "panic"]
  ELSE IF use_cpu.v
  THEN [c EXCEPT !.pc = "done", !.path = "cpu", !.result = BestMultiexp(c.coeffs, c.bases)]
  ELSE [c EXCEPT !.pc = "convert", !.path = "device"]

\* icicle.rs 103-106.
Msm_convert(c) ==
  LET points == IciclePointsFromC(c.curve, c.bases) IN
  IF ~points.some THEN [c EXCEPT !.pc = "panic"]
  ELSE [c EXCEPT !.pc = "check", !.icoeffs = IcicleScalarsFromC(c.coeffs), !.ibases = points.v]

\* icicle.rs 108-113: every base is converted back, which panics when an
\* unwrap does.
Msm_check(c) ==
  IF \E i \in 1..Len(c.ibases) : ~CFromIciclePoint(ToProjective(c.ibases[i])).some
  THEN [c EXCEPT !.pc = "panic"]
  ELSE [c EXCEPT !.pc = "malloc"]

\* The calls of the accelerator's runtime return a Result, which the code
\* unwraps: `ok` is whether the runtime returned Ok, and the call panics when
\* it did not (runtime_error says that the panic is of this kind).
\* DeviceVec::cuda_malloc(1).unwrap() (icicle.rs 115).
Msm_malloc(c, ok) ==
  IF ~ok THEN [c EXCEPT !.pc = "panic", !.runtime_error = TRUE]
  ELSE [c EXCEPT !.pc = "stream"]
\* CudaStream::create().unwrap() and the configuration (icicle.rs 116-121).
Msm_stream(c, ok) ==
  IF ~ok THEN [c EXCEPT !.pc = "panic", !.runtime_error = TRUE]
  ELSE [c EXCEPT !.pc = "launch"]
\* msm::msm(..).unwrap() with is_async set (icicle.rs 122): the sum is
\* started on the stream and the call returns; msm_results holds nothing yet.
Msm_launch(c, ok) ==
  IF ~ok THEN [c EXCEPT !.pc = "panic", !.runtime_error = TRUE]
  ELSE [c EXCEPT !.pc = "synchronize"]
\* stream.synchronize().unwrap() (icicle.rs 123): the code waits for the
\* stream, after which msm_results holds the sum.
Msm_synchronize(c, ok) ==
  IF ~ok THEN [c EXCEPT !.pc = "panic", !.runtime_error = TRUE]
  ELSE [c EXCEPT !.pc = "copy", !.msm_results = Some(DeviceMsm(c.icoeffs, c.ibases))]
\* msm_host_result and copy_to_host(..).unwrap() (icicle.rs 125-128).
Msm_copy(c, ok) ==
  IF ~ok THEN [c EXCEPT !.pc = "panic", !.runtime_error = TRUE, !.host = ProjectiveZero]
  ELSE [c EXCEPT !.pc = "return", !.host = c.msm_results.v]

\* icicle.rs 132-135.
Msm_return(c) ==
  LET msm_point == CFromIciclePoint(c.host) IN
  IF ~msm_point.some THEN [c EXCEPT !.pc = "panic"]
  ELSE [c EXCEPT !.pc = "done", !.result = msm_point.v]

\* ------------------------------------------------ one call of the multiexp
MaxMsm == 3
MsmCoeffs == {0, 1, ScalarModulus - 1}
MsmBases == {Identity, CurveMultiples[1], CurveMultiples[Len(CurveMultiples)]}
Settings == {None} \cup {Some(k) : k \in 0..(U8Max + 1)}

MsmInit ==
  /\ TInit /\ CIdle /\ SIdle /\ FIdleBut("msm")
  /\ \E n \in 1..MaxMsm :
       msm \in {MsmEntry(s, b, C, cf, bs) :
                  s \in Settings, b \in {"debug", "release"}, C \in InfinityCoordinates,
                  cf \in [1..n -> MsmCoeffs], bs \in [1..n -> MsmBases]}

MStep_select ==
  /\ msm.pc = "select" /\ msm' = Msm_select(msm) /\ UNCHANGED butMsm
MStep_convert ==
  /\ msm.pc = "convert" /\ msm' = Msm_convert(msm) /\ UNCHANGED butMsm
MStep_check ==
  /\ msm.pc = "check" /\ msm' = Msm_check(msm) /\ UNCHANGED butMsm
MStep_malloc ==
  \E ok \in BOOLEAN :
    /\ msm.pc = "malloc" /\ msm' = Msm_malloc(msm, ok) /\ UNCHANGED butMsm
MStep_stream ==
  \E ok \in BOOLEAN :
    /\ msm.pc = "stream" /\ msm' = Msm_stream(msm, ok) /\ UNCHANGED butMsm
MStep_launch ==
  \E ok \in BOOLEAN :
    /\ msm.pc = "launch" /\ msm' = Msm_launch(msm, ok) /\ UNCHANGED butMsm
MStep_synchronize ==
  \E ok \in BOOLEAN :
    /\ msm.pc = "synchronize" /\ msm' = Msm_synchronize(msm, ok) /\ UNCHANGED butMsm
MStep_copy ==
  \E ok \in BOOLEAN :
    /\ msm.pc = "copy" /\ msm' = Msm_copy(msm, ok) /\ UNCHANGED butMsm
MStep_return ==
  /\ msm.pc = "return" /\ msm' = Msm_return(msm) /\ UNCHANGED butMsm

MsmNext ==
  \/ MStep_select \/ MStep_convert \/ MStep_check
  \/ MStep_malloc \/ MStep_stream \/ MStep_launch \/ MStep_synchronize \/ MStep_copy
  \/ MStep_return

\* ----------------------------------------------- the parallel Horner update
\* parallelize(v, f) cuts v into contiguous ranges and runs f(range, start) on
\* each, in threads of their own; `cuts` is the set of the indices, from 0,
\* at which a range other than the first starts.
Ranges(n, cuts) ==
  LET starts == Ascending({0} \cup cuts) IN
  [k \in 1..Len(starts) |->
     [start |-> starts[k],
      len |-> (IF k < Len(starts) THEN starts[k + 1] ELSE n) - starts[k]]]

\* The call parallelize(q, |q, start| ...) of Proof::create on the vector q
\* with the polynomial a and the challenge x: `pos` is how far the closure of
\* each range is in its zip, `half` whether it is between `*q *= x` and
\* `*q += a`, and `log` lists the indices in the order their updates ended.
ParEntry(q, a, x, cuts) ==
  LET ranges == Ranges(Len(q), cuts) IN
  [pc |-> "run", q0 |-> q, q |-> q, a |-> a, x |-> x, ranges |-> ranges,
   pos |-> [k \in 1..Len(ranges) |-> 0], half |-> [k \in 1..Len(ranges) |-> FALSE],
   log |-> <<>>]

\* The zip of the range k with new_poly[start..] has an element left
\* (prover.rs 58, 101, 148-150).
Closure_more(c, k) ==
  /\ c.pos[k] < c.ranges[k].len
  /\ c.ranges[k].start + c.pos[k] < Len(c.a)

\* `*q *= &x` (prover.rs 59, 102, 152) in the closure of the range k.
Closure_mul(c, k) ==
  LET i == c.ranges[k].start + c.pos[k] + 1 IN
  [c EXCEPT !.q[i] = FMul(@, c.x), !.half[k] = TRUE]

\* Mutant: the closure zips its range with the polynomial from its beginning.
Closure_add_unsliced(c, k) ==
  LET i == c.ranges[k].start + c.pos[k] + 1 IN
  [c EXCEPT !.q[i] = FAdd(@, c.a[c.pos[k] + 1]),
            !.half[k] = FALSE, !.pos[k] = @ + 1, !.log = Append(@, i - 1)]

\* `*q += a` (prover.rs 60, 103, 153), a being the element of new_poly[start..]
\* at the place of q in the range, and the step of the zip.
Closure_add(c, k) ==
  LET i == c.ranges[k].start + c.pos[k] + 1 IN
  [c EXCEPT !.q[i] = FAdd(@, c.a[c.ranges[k].start + c.pos[k] + 1]),
            !.half[k] = FALSE, !.pos[k] = @ + 1, !.log = Append(@, i - 1)]

\* ------------------------------------------------ one call of parallelize
MaxVec == 3
ParValues == {1, 5}
ParInit ==
  /\ TInit /\ CIdle /\ SIdle /\ FIdleBut("par")
  /\ \E n \in 1..MaxVec :
       par \in {ParEntry(q, a, 3, cuts) :
                  q \in [1..n -> ParValues], a \in [1..n -> ParValues],
                  cuts \in SUBSET (1..(n - 1))}

PStep_mul ==
  /\ par.pc = "run"
  /\ \E k \in 1..Len(par.ranges) :
       /\ Closure_more(par, k) /\ ~par.half[k]
       /\ par' = Closure_mul(par, k)
  /\ UNCHANGED butPar

PStep_add ==
  /\ par.pc = "run"
  /\ \E k \in 1..Len(par.ranges) :
       /\ par.half[k]
       /\ par' = Closure_add(par, k)
  /\ UNCHANGED butPar

\* The scope of parallelize ends when the closures have all returned.
PStep_join ==
  /\ par.pc = "run"
  /\ \A k \in 1..Len(par.ranges) : ~Closure_more(par, k) /\ ~par.half[k]
  /\ par' = [par EXCEPT !.pc = "done"]
  /\ UNCHANGED butPar

ParNext == PStep_mul \/ PStep_add \/ PStep_join

\* ------------------------------------------------------------ Poseidon
\* The Poseidon specification: Width state words of which Rate are the
\* rate, FullRounds full and PartialRounds partial rounds (3, 2, 8 and 56 for
\* the specification the code is used with), over the field of ScalarModulus
\* elements.  CapacityShift is the 64 of the capacity element.
Width == 3
Rate == 2
FullRounds == 2
PartialRounds == 1
CapacityShift == 2

\* Spec::constants: the round constants, a row for each round, and the MDS
\* matrix (a Cauchy matrix).
RoundConstants == <<<<1, 2, 3>>, <<4, 5, 6>>, <<7, 8, 9>>>>
Mds == <<<<9, 10, 8>>, <<10, 8, 11>>, <<8, 11, 2>>>>
\* Spec::sbox: the fifth power.
Sbox(val) == FMul(FMul(FMul(val, val), FMul(val, val)), val)

RECURSIVE Dot(_, _, _)
Dot(row, state, j) ==
  IF j = 0 THEN 0 ELSE FAdd(Dot(row, state, j - 1), FMul(row[j], state[j]))
\* permute (poseidon.rs 99-144).
ApplyMds(state) == [i \in 1..Width |-> Dot(Mds[i], state, Width)]
FullRound(state, rcs) ==
  ApplyMds([i \in 1..Width |-> Sbox(FAdd(state[i], rcs[i]))])
PartRound(state, rcs) ==
  LET added == [i \in 1..Width |-> FAdd(state[i], rcs[i])]
  IN  ApplyMds([added EXCEPT ![1] = Sbox(added[1])])
RECURSIVE PermuteFrom(_, _)
PermuteFrom(state, r) ==
  LET r_f == FullRounds \div 2
      r_p == PartialRounds
  IN  IF r > r_f + r_p + r_f \/ r > Len(RoundConstants) THEN state
      ELSE PermuteFrom(IF r > r_f /\ r <= r_f + r_p
                       THEN PartRound(state, RoundConstants[r])
                       ELSE FullRound(state, RoundConstants[r]),
                       r + 1)
Permute(state) == PermuteFrom(state, 1)

\* S::Rate::default() and S::State::default().
RateDefault == [i \in 1..Rate |-> None]
StateDefault == [i \in 1..Width |-> 0]

\* ConstantLength::pad_and_add (poseidon.rs 289-301).
PadAndAdd(state, input) ==
  [i \in 1..Width |->
     IF i <= Len(input) /\ input[i].some THEN FAdd(state[i], input[i].v) ELSE state[i]]

\* poseidon_duplex (poseidon.rs 146-162): the state after, and the output.
PoseidonDuplex(state, input) ==
  LET after == Permute(PadAndAdd(state, input))
  IN  [state |-> after, output |-> [i \in 1..Rate |-> Some(after[i])]]

Absorbing(input) == [mode |-> "Absorbing", rate |-> input]
Squeezing(output) == [mode |-> "Squeezing", rate |-> output]
\* SpongeState::absorb (poseidon.rs 170-174).
SpongeAbsorb(val) == Absorbing([RateDefault EXCEPT ![1] = Some(val)])

\* Duplex::new (poseidon.rs 189-208); `permutations` counts the calls of
\* poseidon_duplex.
DuplexNew(initial_capacity_element) ==
  [sponge |-> Absorbing(RateDefault),
   state |-> [StateDefault EXCEPT ![Rate + 1] = initial_capacity_element],
   permutations |-> 0]

\* Mutant: a full buffer is permuted and the new value is not kept.
DuplexAbsorb_drop_on_full(d, value) ==
  IF d.sponge.mode = "Absorbing"
  THEN IF \E i \in 1..Rate : ~d.sponge.rate[i].some
       THEN LET first == CHOOSE i \in 1..Rate :
                           ~d.sponge.rate[i].some /\ \A j \in 1..(i - 1) : d.sponge.rate[j].some
            IN  [d EXCEPT !.sponge.rate[first] = Some(value)]
       ELSE [d EXCEPT !.state = PoseidonDuplex(d.state, d.sponge.rate).state,
                      !.permutations = @ + 1,
                      !.sponge = Absorbing(RateDefault)]
  ELSE [d EXCEPT !.sponge = SpongeAbsorb(value)]

\* Duplex::absorb (poseidon.rs 211-236).
DuplexAbsorb(d, value) ==
  IF d.sponge.mode = "Absorbing"
  THEN IF \E i \in 1..Rate : ~d.sponge.rate[i].some
       THEN LET first == CHOOSE i \in 1..Rate :
                           ~d.sponge.rate[i].some /\ \A j \in 1..(i - 1) : d.sponge.rate[j].some
            IN  [d EXCEPT !.sponge.rate[first] = Some(value)]
       ELSE [d EXCEPT !.state = PoseidonDuplex(d.state, d.sponge.rate).state,
                      !.permutations = @ + 1,
                      !.sponge = SpongeAbsorb(value)]
  ELSE [d EXCEPT !.sponge = SpongeAbsorb(value)]

\* Duplex::squeeze (poseidon.rs 239-263): the sponge after, and the element.
RECURSIVE DuplexSqueeze(_)
DuplexSqueeze(d) ==
  IF d.sponge.mode = "Absorbing"
  THEN LET r == PoseidonDuplex(d.state, d.sponge.rate)
       IN  DuplexSqueeze([d EXCEPT !.state = r.state, !.permutations = @ + 1,
                                   !.sponge = Squeezing(r.output)])
  ELSE IF \E i \in 1..Rate : d.sponge.rate[i].some
       THEN LET first == CHOOSE i \in 1..Rate :
                           d.sponge.rate[i].some /\ \A j \in 1..(i - 1) : ~d.sponge.rate[j].some
            IN  [d |-> [d EXCEPT !.sponge.rate[first] = None], e |-> d.sponge.rate[first].v]
       ELSE DuplexSqueeze([d EXCEPT !.sponge = Absorbing(RateDefault)])

\* Mutant: the capacity element is the length.
InitialCapacityElement_unshifted(length) == length % ScalarModulus

\* ConstantLength::initial_capacity_element (poseidon.rs 283-287).
InitialCapacityElement(length) == (length * Pow(2, CapacityShift)) % ScalarModulus

\* Hash::init (poseidon.rs 312-321) and the entry of Hash::hash.
HashEntry(length, message) ==
  [pc |-> "absorb", domain |-> length, message |-> message, next |-> 1, length |-> 0,
   duplex |-> DuplexNew(InitialCapacityElement(length)), out |-> None]

\* Hash::hash, a turn of the loop (poseidon.rs 332-335).
Hash_absorb(c) ==
  [c EXCEPT !.length = c.next, !.duplex = DuplexAbsorb(@, c.message[c.next]), !.next = @ + 1]

\* Mutant: a message shorter than the domain's length is let through.
Hash_assert_at_most(c) ==
  IF c.length <= c.domain THEN [c EXCEPT !.pc = "squeeze"] ELSE [c EXCEPT !.pc = "panic"]

\* Hash::hash, the assertion (poseidon.rs 336).
Hash_assert(c) ==
  IF c.length = c.domain THEN [c EXCEPT !.pc = "squeeze"] ELSE [c EXCEPT !.pc = "panic"]

\* Hash::hash, the squeeze (poseidon.rs 337).
Hash_squeeze(c) ==
  LET r == DuplexSqueeze(c.duplex) IN [c EXCEPT !.pc = "done", !.duplex = r.d, !.out = Some(r.e)]

\* ------------------------------------------------- one call of Hash::hash
MaxMsg == 3
MsgValues == {0, 1, 5}
HashInit ==
  /\ TInit /\ CIdle /\ SIdle /\ FIdleBut("sponge")
  /\ \E length \in 0..MaxMsg, n \in 0..MaxMsg :
       sponge \in {HashEntry(length, message) : message \in [1..n -> MsgValues]}

HStep_absorb ==
  /\ sponge.pc = "absorb" /\ sponge.next <= Len(sponge.message)
  /\ sponge' = Hash_absorb(sponge)
  /\ UNCHANGED butSponge
HStep_assert ==
  /\ sponge.pc = "absorb" /\ sponge.next > Len(sponge.message)
  /\ sponge' = Hash_assert(sponge)
  /\ UNCHANGED butSponge
HStep_squeeze ==
  /\ sponge.pc = "squeeze"
  /\ sponge' = Hash_squeeze(sponge)
  /\ UNCHANGED butSponge

HashNext == HStep_absorb \/ HStep_assert \/ HStep_squeeze

\* --------------------------------------------------------- batch_invert
\* Field::invert: None for zero, else the power ScalarModulus - 2.
RECURSIVE FPow(_, _)
FPow(a, e) == IF e = 0 THEN 1 ELSE FMul(a, FPow(a, e - 1))
Invert(a) == IF a = 0 THEN None ELSE Some(FPow(a, ScalarModulus - 2))
\* conditional_select(a, b, choice): b when the choice is set.
ConditionalSelect(a, b, choice) == IF choice THEN b ELSE a

\* FieldExt::batch_invert (fields.rs 153-156): the entry.
BatchInvertEntry(v) ==
  [pc |-> "forward", v0 |-> v, v |-> v, tmp |-> <<>>, acc |-> 1, allinv |-> 0, k |-> 1]

\* fields.rs 157-160: a turn of the first loop.
BatchInvert_forward(c) ==
  LET p == c.v[c.k] IN
  [c EXCEPT !.tmp = Append(@, c.acc),
            !.acc = ConditionalSelect(FMul(c.acc, p), c.acc, p = 0),
            !.k = @ + 1]

\* fields.rs 162-163: the inversion of the product; the unwrap panics on zero.
BatchInvert_invert(c) ==
  IF ~Invert(c.acc).some THEN [c EXCEPT !.pc = "panic"]
  ELSE [c EXCEPT !.acc = Invert(c.acc).v, !.allinv = Invert(c.acc).v,
                 !.pc = "backward", !.k = Len(c.v)]

\* Mutant: the second loop does not skip the zeros.
BatchInvert_backward_noskip(c) ==
  LET p == c.v[c.k]
      tmp == FMul(c.tmp[c.k], c.acc)
  IN  [c EXCEPT !.acc = FMul(c.acc, p), !.v[c.k] = tmp, !.k = @ - 1]

\* fields.rs 165-171: a turn of the second loop, from the last element.
BatchInvert_backward(c) ==
  LET p == c.v[c.k]
      skip == p = 0
      tmp == FMul(c.tmp[c.k], c.acc)
  IN  [c EXCEPT !.acc = ConditionalSelect(FMul(c.acc, p), c.acc, skip),
                !.v[c.k] = ConditionalSelect(tmp, p, skip),
                !.k = @ - 1]

\* ---------------------------------------------- one call of batch_invert
MaxBatch == 3
BatchValues == {0, 1, 2, 5, ScalarModulus - 1}
BiInit ==
  /\ TInit /\ CIdle /\ SIdle /\ FIdleBut("bi")
  /\ \E n \in 0..MaxBatch : bi \in {BatchInvertEntry(v) : v \in [1..n -> BatchValues]}

BStep_forward ==
  /\ bi.pc = "forward" /\ bi.k <= Len(bi.v)
  /\ bi' = BatchInvert_forward(bi)
  /\ UNCHANGED butBi
BStep_invert ==
  /\ bi.pc = "forward" /\ bi.k > Len(bi.v)
  /\ bi' = BatchInvert_invert(bi)
  /\ UNCHANGED butBi
BStep_backward ==
  /\ bi.pc = "backward" /\ bi.k >= 1
  /\ bi' = BatchInvert_backward(bi)
  /\ UNCHANGED butBi
\* fields.rs 173: the return.
BStep_return ==
  /\ bi.pc = "backward" /\ bi.k < 1
  /\ bi' = [bi EXCEPT !.pc = "done"]
  /\ UNCHANGED butBi

BiNext == BStep_forward \/ BStep_invert \/ BStep_backward \/ BStep_return

\* --------------------------------------- a point against its two coordinates
\* Three transcripts are given the same elements, a point being given to one
\* of them by common_point and to the others as two calls of common_scalar on
\* the scalars that have the encodings of its coordinates.  tw2 is always
\* given the scalars; the point goes to the writer tw or to the reader tr.
TwoScalars(t, point, reader) ==
  LET coords == Coordinates(point) IN
  IF ~coords.some THEN t
  ELSE IF reader THEN Read_common_scalar(Read_common_scalar(t, coords.x).t, coords.y).t
       ELSE Write_common_scalar(Write_common_scalar(t, coords.x).t, coords.y).t
ScalarEntries(point) ==
  LET coords == Coordinates(point) IN
  IF ~coords.some THEN <<>>
  ELSE <<[op |-> "common_scalar", arg |-> ScalarValue(coords.x), ok |-> TRUE, out |-> NoValue],
         [op |-> "common_scalar", arg |-> ScalarValue(coords.y), ok |-> TRUE, out |-> NoValue]>>

\* Blake2bWrite::common_point on tw (transcript.rs 193-204).
Elem_point_writer ==
  \E p \in Points :
    LET c == Call("common_point", PointValue(p))
        r == Write_common_point(tw, p)
    IN  /\ Len(wlog) < MaxOps /\ Len(rlog) < MaxOps
        /\ tw' = r.t
        /\ wlog' = Append(wlog, Entry(c, r))
        /\ tw2' = TwoScalars(tw2, p, FALSE)
        /\ w2log' = w2log \o ScalarEntries(p)
        /\ tr' = TwoScalars(tr, p, TRUE)
        /\ rlog' = rlog \o ScalarEntries(p)
        /\ UNCHANGED <<oracle, phase, swap, mode, cvars, svars, fvars>>

\* Blake2bRead::common_point on tr (transcript.rs 118-129).
Elem_point_reader ==
  \E p \in Points :
    LET c == Call("common_point", PointValue(p))
        r == Read_common_point(tr, p)
    IN  /\ Len(wlog) < MaxOps /\ Len(rlog) < MaxOps
        /\ tr' = r.t
        /\ rlog' = Append(rlog, Entry(c, r))
        /\ tw2' = TwoScalars(tw2, p, FALSE)
        /\ w2log' = w2log \o ScalarEntries(p)
        /\ tw' = TwoScalars(tw, p, FALSE)
        /\ wlog' = wlog \o ScalarEntries(p)
        /\ UNCHANGED <<oracle, phase, swap, mode, cvars, svars, fvars>>

\* common_scalar on the three (transcript.rs 131-135, 206-210).
Elem_scalar ==
  \E s \in Scalars :
    LET c == Call("common_scalar", ScalarValue(s))
        r == Write_common_scalar(tw, s)
        r2 == Write_common_scalar(tw2, s)
        rr == Read_common_scalar(tr, s)
    IN  /\ Len(wlog) < MaxOps /\ Len(rlog) < MaxOps
        /\ tw' = r.t /\ tw2' = r2.t /\ tr' = rr.t
        /\ wlog' = Append(wlog, Entry(c, r))
        /\ w2log' = Append(w2log, Entry(c, r2))
        /\ rlog' = Append(rlog, Entry(c, rr))
        /\ UNCHANGED <<oracle, phase, swap, mode, cvars, svars, fvars>>

\* squeeze_challenge on the three (transcript.rs 111-116, 186-191).
Elem_squeeze ==
  LET c == Call("squeeze_challenge", NoValue)
      orc1 == OracleAdd(oracle, tw.state)
      r == Write_squeeze_challenge(tw, orc1)
      orc2 == OracleAdd(orc1, tw2.state)
      r2 == Write_squeeze_challenge(tw2, orc2)
      orc3 == OracleAdd(orc2, tr.state)
      rr == Read_squeeze_challenge(tr, orc3)
  IN  /\ Len(wlog) < MaxOps /\ Len(rlog) < MaxOps
      /\ tw' = r.t /\ tw2' = r2.t /\ tr' = rr.t
      /\ oracle' = orc3
      /\ wlog' = Append(wlog, Entry(c, r))
      /\ w2log' = Append(w2log, Entry(c, r2))
      /\ rlog' = Append(rlog, Entry(c, rr))
      /\ UNCHANGED <<phase, swap, mode, cvars, svars, fvars>>

ElemNext == Elem_point_writer \/ Elem_point_reader \/ Elem_scalar \/ Elem_squeeze

\* --------------------------------------------------- permutation::Argument
\* A Column<Any> is an index and a column type, and two columns are equal
\* when both are equal.
Column(index, column_type) == [index |-> index, column_type |-> column_type]
\* Argument::new (permutation.rs 21-23).
ArgumentNew == [columns |-> <<>>]
\* Vec::contains.
Contains(seq, x) == \E i \in 1..Len(seq) : seq[i] = x
\* Mutant: the column is pushed whether it is there or not.
Argument_add_column_push(arg, column) == [arg EXCEPT !.columns = Append(@, column)]
\* Argument::add_column (permutation.rs 59-63).
Argument_add_column(arg, column) ==
  IF ~Contains(arg.columns, column) THEN [arg EXCEPT !.columns = Append(@, column)]
  ELSE arg
\* Argument::get_columns (permutation.rs 65-67).
Argument_get_columns(arg) == arg.columns

\* An argument is made and is given up to MaxAdds columns; `added` is the
\* columns of the calls, `got` the last result of get_columns.
MaxAdds == 4
Columns == {Column(i, t) : i \in 0..1, t \in {"Advice", "Fixed"}}
PermInit ==
  /\ TInit /\ CIdle /\ SIdle /\ FIdleBut("perm")
  /\ perm = [pc |-> "made", arg |-> ArgumentNew, added |-> <<>>, got |-> <<>>]
Perm_add_column ==
  \E column \in Columns :
    /\ perm.pc = "made" /\ Len(perm.added) < MaxAdds
    /\ perm' = [perm EXCEPT !.arg = Argument_add_column(@, column),
                            !.added = Append(@, column)]
    /\ UNCHANGED butPerm
Perm_get_columns ==
  /\ perm.pc = "made"
  /\ perm' = [perm EXCEPT !.got = Argument_get_columns(perm.arg)]
  /\ UNCHANGED butPerm
PermNext == Perm_add_column \/ Perm_get_columns

\* ------------------------------------------------- a Duplex, call by call
\* Mutant: when the outputs are used up they are read from the state again.
DuplexSqueezeTurn_reread(d) ==
  IF d.sponge.mode = "Absorbing"
  THEN LET r == PoseidonDuplex(d.state, d.sponge.rate)
       IN  [d |-> [d EXCEPT !.state = r.state, !.permutations = @ + 1,
                            !.sponge = Squeezing(r.output)],
            ret |-> None]
  ELSE IF \E i \in 1..Rate : d.sponge.rate[i].some
       THEN LET first == CHOOSE i \in 1..Rate :
                           d.sponge.rate[i].some /\ \A j \in 1..(i - 1) : ~d.sponge.rate[j].some
            IN  [d |-> [d EXCEPT !.sponge.rate[first] = None], ret |-> d.sponge.rate[first]]
       ELSE [d |-> [d EXCEPT !.sponge = Squeezing([i \in 1..Rate |-> Some(d.state[i])])],
             ret |-> None]

\* Duplex::squeeze, a turn of its loop (poseidon.rs 240-261): the sponge
\* after, and the element if the turn returns.
DuplexSqueezeTurn(d) ==
  IF d.sponge.mode = "Absorbing"
  THEN LET r == PoseidonDuplex(d.state, d.sponge.rate)
       IN  [d |-> [d EXCEPT !.state = r.state, !.permutations = @ + 1,
                            !.sponge = Squeezing(r.output)],
            ret |-> None]
  ELSE IF \E i \in 1..Rate : d.sponge.rate[i].some
       THEN LET first == CHOOSE i \in 1..Rate :
                           d.sponge.rate[i].some /\ \A j \in 1..(i - 1) : ~d.sponge.rate[j].some
            IN  [d |-> [d EXCEPT !.sponge.rate[first] = None], ret |-> d.sponge.rate[first]]
       ELSE [d |-> [d EXCEPT !.sponge = Absorbing(RateDefault)], ret |-> None]

\* A Duplex is made for a ConstantLength domain and is given up to
\* MaxDuplexOps calls of absorb and squeeze.  Beside the Duplex `d`, the
\* variable keeps what the calls were: the state the Duplex was made with,
\* the values absorbed, the inputs the permutation was run on, and for every
\* element returned the Duplex the call of squeeze began with (`start`), the
\* word of the output it was (`word`, from 1), the number of values absorbed
\* before it and the state it was read from.
MaxDuplexOps == 4
DuplexValues == {1, 5}
DuplexInit ==
  /\ TInit /\ CIdle /\ SIdle /\ FIdleBut("duplex")
  /\ \E length \in 0..2 :
       LET d == DuplexNew(InitialCapacityElement(length)) IN
       duplex = [pc |-> "ready", d |-> d, made |-> d.state, ops |-> 0, absorbed |-> <<>>,
                 blocks |-> <<>>, outs |-> <<>>, start |-> d, turns |-> 0]

\* The input of the permutation the call ran, if it ran one.
BlocksAfter(blocks, before, after) ==
  IF after.permutations = before.permutations THEN blocks
  ELSE Append(blocks, before.sponge.rate)

\* Duplex::absorb (poseidon.rs 211-236).
DStep_absorb ==
  \E value \in DuplexValues :
    LET d1 == DuplexAbsorb(duplex.d, value) IN
    /\ duplex.pc = "ready" /\ duplex.ops < MaxDuplexOps
    /\ duplex' = [duplex EXCEPT !.d = d1, !.ops = @ + 1,
                                !.absorbed = Append(@, value),
                                !.blocks = BlocksAfter(@, duplex.d, d1)]
    /\ UNCHANGED butDuplex

\* Duplex::squeeze is called (poseidon.rs 239).
DStep_squeeze ==
  /\ duplex.pc = "ready" /\ duplex.ops < MaxDuplexOps
  /\ duplex' = [duplex EXCEPT !.pc = "loop", !.ops = @ + 1, !.start = duplex.d, !.turns = 0]
  /\ UNCHANGED butDuplex

\* A turn of the loop of Duplex::squeeze (poseidon.rs 240-261).
DStep_turn ==
  /\ duplex.pc = "loop"
  /\ \E r \in {DuplexSqueezeTurn(duplex.d)} :
      LET word == CHOOSE i \in 1..Rate :
                    /\ duplex.d.sponge.rate[i].some
                    /\ \A j \in 1..(i - 1) : ~duplex.d.sponge.rate[j].some
      IN
      /\ duplex' = [duplex EXCEPT
           !.d = r.d, !.turns = @ + 1,
           !.blocks = BlocksAfter(@, duplex.d, r.d),
           !.pc = IF r.ret.some THEN "ready" ELSE "loop",
           !.outs = IF r.ret.some
                    THEN Append(@, [e |-> r.ret.v, word |-> word, start |-> duplex.start,
                                    turns |-> duplex.turns + 1,
                                    absorbed |-> Len(duplex.absorbed), state |-> r.d.state,
                                    permutations |-> r.d.permutations])
                    ELSE @]
      /\ UNCHANGED butDuplex

DuplexNext == DStep_absorb \/ DStep_squeeze \/ DStep_turn

vars == <<tvars, cvars, svars, fvars>>
Init == (\E writer \in Writers, C \in Curves : TInitOn(writer, C)) /\ CIdle /\ SIdle /\ FIdle
ElemInit == TInit /\ CIdle /\ SIdle /\ FIdle
Next == TNext
Spec == Init /\ [][Next]_vars
SpecCreate == CInit /\ [][CNext]_vars
SpecSets == SInit /\ [][SNext]_vars
SpecChallenge == ChInit /\ [][ChNext]_vars
SpecMsm == MsmInit /\ [][MsmNext]_vars
SpecParallelize == ParInit /\ [][ParNext]_vars
SpecHash == HashInit /\ [][HashNext]_vars
SpecBatchInvert == BiInit /\ [][BiNext]_vars
SpecElements == ElemInit /\ [][ElemNext]_vars
SpecPermutation == PermInit /\ [][PermNext]_vars
SpecDuplex == DuplexInit /\ [][DuplexNext]_vars
\* A call of squeeze runs on: the loop takes its next turn.
SpecDuplexFair == DuplexInit /\ [][DuplexNext]_vars /\ WF_vars(DStep_turn)

\* Proof::create runs on: every step that can be taken is taken, and the
\* opening primitive, called again and again, succeeds at some call.
SpecCreateFair ==
  /\ SpecCreate
  /\ WF_vars(CNext)
  /\ SF_vars(Step_attempt_open /\ cr'.pc = "done")

\* ================================================================= claims
\* The calls of the prover the verifier mirrors, in order.
Mirrored(log) == SelectSeq(log, IsMirrored)

\* The history of a transcript before its k-th call: the calls made, with their
\* arguments (for a read, the element read) and whether they succeeded.  A read
\* and the write of the same element are the same absorb.
HistoryItem(e) ==
  [op |-> CASE e.op \in {"write_scalar", "read_scalar"} -> "scalar"
            [] e.op \in {"write_point", "read_point"} -> "point"
            [] OTHER -> e.op,
   arg |-> IF e.op \in {"read_scalar", "read_point"} THEN e.out ELSE e.arg,
   ok |-> e.ok]
History(log, k) == [i \in 1..(k - 1) |-> HistoryItem(log[i])]
Squeezes(log) == {k \in 1..Len(log) : log[k].op = "squeeze_challenge"}

\* The bytes an element is absorbed as.
Encoding(v) ==
  CASE v.kind = "scalar" -> ToBytes(v.s)
    [] v.kind = "point" -> ToBytes(v.p.x) \o ToBytes(v.p.y)
    [] OTHER -> <<>>

\* A step that is the call the log's new last entry records.
Called(log, logNext) == Len(logNext) = Len(log) + 1
LastOf(log) == log[Len(log)]

\* The k-th call of the verifier returns what the prover's call it mirrors did:
\* a read the element that was written, a squeeze the challenge the prover
\* obtained (and a common_* call succeeds exactly when the prover's did).
AsWritten(k) ==
  LET e == Mirrored(wlog)[k]
      v == rlog[k]
  IN  CASE e.op \in {"write_scalar", "write_point"} -> v.ok /\ v.out = e.arg
        [] e.op = "squeeze_challenge" -> v.ok /\ v.out = e.out
        [] OTHER -> v.ok = e.ok
\* A write of an element that has an encoding, which failed: on the writer.
IsWriterError(e) == e.op \in {"write_scalar", "write_point"} /\ IsMirrored(e) /\ ~e.ok
\* No write among the first k calls of the log failed on the writer.
NoWriterError(log, k) == \A i \in 1..k : ~IsWriterError(log[i])

\* C1 as claimed: on the prover's finalized buffer, whatever the writer, the
\* verifier's mirrored calls return from every read the element that was
\* written and from every squeeze the challenge the prover obtained.
C1_AsClaimed == mode = "honest" => \A k \in 1..Len(rlog) : AsWritten(k)

\* C1: on the prover's finalized buffer, the verifier's mirrored calls return
\* from every read the element that was written and from every squeeze the
\* challenge the prover obtained, up to the mirror of the first write that
\* returned the writer's error: all of them when no write did.  A write that
\* returns the writer's error has absorbed its element all the same.
C1_RoundTrip ==
  /\ [](mode = "honest" =>
          \A k \in 1..Len(rlog) : NoWriterError(Mirrored(wlog), k) => AsWritten(k))
  /\ [][(Called(wlog, wlog') /\ IsWriterError(LastOf(wlog')))
          => tw'.state = Update(tw.state, Encoding(LastOf(wlog').arg))]_vars

\* C1's case: the prover wrote a point, squeezed a challenge, and its next
\* write failed on the writer; the verifier has read the point, squeezed, and
\* made the read that mirrors the write that failed.
C1_Witness ==
  /\ mode = "honest" /\ Len(wlog) = 3 /\ Len(rlog) = 3
  /\ wlog[1].op = "write_point" /\ wlog[1].ok
  /\ wlog[2].op = "squeeze_challenge"
  /\ IsWriterError(wlog[3])
  /\ rlog[1].op = "read_point" /\ rlog[1].ok

\* C2: any two squeezes, on the same or on two transcripts, that follow the same
\* history of calls return the same challenge.
C2_Deterministic ==
  \A L1, L2 \in {wlog, w2log, rlog} :
    \A i \in Squeezes(L1), j \in Squeezes(L2) :
      History(L1, i) = History(L2, j) => L1[i].out = L2[j].out

\* C2's case: the reader and the writer squeezed after the same two calls.
C2_Witness ==
  \E k \in Squeezes(rlog) \cap Squeezes(wlog) :
    /\ k > 2
    /\ History(rlog, k) = History(wlog, k)
    /\ rlog[k - 1].op = "read_scalar"

\* The two absorbs exchanged on the second transcript.
SwapFirst == wlog[swap.at]
SwapSecond == wlog[swap.at + 1]
LaterSqueezesDiffer ==
  \A j \in Squeezes(wlog) : j > swap.at + 1 => wlog[j].out # w2log[j].out

\* C3 as claimed: exchanging two consecutive absorbs of elements whose
\* encodings differ changes the challenge of every later squeeze.
C3_AsClaimed ==
  (swap.st = "done" /\ Encoding(SwapFirst.arg) # Encoding(SwapSecond.arg))
    => LaterSqueezesDiffer

\* C3, as far as it holds: exchanging two consecutive absorbs changes the
\* challenge of every later squeeze when the two encodings, concatenated in the
\* one order, differ from their concatenation in the other order.
C3_SwapChanges ==
  (swap.st = "done"
     /\ Encoding(SwapFirst.arg) \o Encoding(SwapSecond.arg)
          # Encoding(SwapSecond.arg) \o Encoding(SwapFirst.arg))
    => LaterSqueezesDiffer

\* Two different scalars were exchanged and a challenge squeezed.
C3_Witness ==
  /\ swap.st = "done"
  /\ SwapFirst.arg.kind = "scalar" /\ SwapSecond.arg.kind = "scalar"
  /\ SwapFirst.arg # SwapSecond.arg
  /\ \E j \in Squeezes(wlog) : j > swap.at + 1

IsIdentityCall(e) == e.arg.kind = "point" /\ e.arg.p = Identity

\* C4: a common_point or write_point of the identity returns an error and
\* leaves the hash state and the writer (the reader) as they were, and no
\* read_point returns the identity.
C4_IdentityRejected ==
  [][/\ (Called(wlog, wlog') /\ IsIdentityCall(LastOf(wlog')))
          => (~LastOf(wlog').ok /\ tw' = tw)
     /\ (Called(rlog, rlog') /\ LastOf(rlog').op = "common_point"
            /\ IsIdentityCall(LastOf(rlog')))
          => (~LastOf(rlog').ok /\ tr' = tr)
     /\ (Called(rlog, rlog') /\ LastOf(rlog').op = "read_point" /\ LastOf(rlog').ok)
          => ~LastOf(rlog').out.p.inf]_vars

\* C4's case: the prover's write_point and the verifier's common_point of the
\* identity have both been called.
C4_Witness ==
  /\ \E k \in 1..Len(wlog) : wlog[k].op = "write_point" /\ IsIdentityCall(wlog[k])
  /\ \E k \in 1..Len(rlog) : rlog[k].op = "common_point" /\ IsIdentityCall(rlog[k])

\* Whether the next bytes of a stream are no canonical scalar, no valid point.
BadScalarBytes(io) ==
  Len(io) < ReprLen \/ FromLE(SubSeq(io, 1, ReprLen)) >= ScalarModulus
BadPointBytes(C, io) ==
  \/ Len(io) < PointReprLen(C)
  \/ /\ C = "coordinates"
     /\ LET x == FromLE(SubSeq(io, 1, ReprLen))
            y == FromLE(SubSeq(io, ReprLen + 1, 2 * ReprLen))
        IN  x >= BaseModulus \/ y >= BaseModulus
              \/ (y * y - x * x * x - CurveB) % BaseModulus # 0
  \/ /\ C = "compressed"
     /\ LET x == FromLE(SubSeq(io, 1, ReprLen)) % SignBit
        IN  x >= BaseModulus
              \/ \A y \in 0..(BaseModulus - 1) :
                   (y * y - x * x * x - CurveB) % BaseModulus # 0

\* C5: read_scalar and read_point return an error when the next bytes are not
\* a canonical field element, not a valid point, or too few, and a read that
\* returns an error leaves the hash state as it was.
C5_ReadErrors ==
  [][Called(rlog, rlog') =>
       LET e == LastOf(rlog') IN
         /\ (e.op = "read_scalar" /\ BadScalarBytes(tr.io)) => ~e.ok
         /\ (e.op = "read_point" /\ BadPointBytes(tr.marker_c, tr.io)) => ~e.ok
         /\ (e.op \in {"read_scalar", "read_point"} /\ ~e.ok)
              => tr'.state = tr.state]_vars

\* C5's case: on a stream that was cut or changed, after something was absorbed,
\* a read has failed.
C5_Witness ==
  \E k \in 1..Len(rlog) :
    /\ rlog[k].op \in {"read_scalar", "read_point"} /\ ~rlog[k].ok
    /\ mode \in {"noncanonical", "zeroed", "truncated"}
    /\ tr.state.input # <<>>

\* Two squeezes of one log with no successful absorb between them.
NoAbsorbBetween(log, i, j) ==
  \A k \in (i + 1)..(j - 1) : log[k].op = "squeeze_challenge" \/ ~log[k].ok

\* C6: a squeeze returns the challenge of the digest of the hash state and
\* appends that digest to the state, so the state changes; two squeezes with
\* no absorb between them return different challenges.
C6_Ratchet ==
  /\ [][(Called(wlog, wlog') /\ LastOf(wlog').op = "squeeze_challenge")
          => /\ tw'.state = Update(tw.state, Finalize(oracle, tw.state))
             /\ LastOf(wlog').out.ch = Challenge255New(Finalize(oracle, tw.state))
             /\ tw'.state # tw.state]_vars
  /\ [][(Called(rlog, rlog') /\ LastOf(rlog').op = "squeeze_challenge")
          => /\ tr'.state = Update(tr.state, Finalize(oracle, tr.state))
             /\ LastOf(rlog').out.ch = Challenge255New(Finalize(oracle, tr.state))
             /\ tr'.state # tr.state]_vars
  /\ [](\A L \in {wlog, rlog} : \A i, j \in Squeezes(L) :
          (i < j /\ NoAbsorbBetween(L, i, j)) => L[i].out # L[j].out)

\* C6's case: the prover and the verifier have each squeezed twice in a row.
C6_Witness ==
  \E k \in 1..(Len(rlog) - 1) :
    /\ k + 1 <= Len(wlog)
    /\ {k, k + 1} \subseteq Squeezes(rlog) \cap Squeezes(wlog)

\* The bytes an element is written as on a transcript of the curve C.
WireEncoding(C, v) ==
  CASE v.kind = "scalar" -> ToBytes(v.s)
    [] v.kind = "point" -> PointToBytes(C, v.p)
    [] OTHER -> <<>>

\* The encodings of the elements the successful writes of a log wrote, in order.
RECURSIVE Written(_, _)
Written(C, log) ==
  IF log = <<>> THEN <<>>
  ELSE (IF Head(log).op \in {"write_scalar", "write_point"} /\ Head(log).ok
        THEN WireEncoding(C, Head(log).arg) ELSE <<>>) \o Written(C, Tail(log))

\* `buf` is, call after call of the log, the whole encoding of the element of
\* a write that succeeded and a leading part, short of the whole, of the
\* encoding of the element of a write that failed on the writer.
RECURSIVE WrittenParts(_, _, _)
WrittenParts(C, buf, log) ==
  IF log = <<>> THEN buf = <<>>
  ELSE LET e == Head(log)
           enc == WireEncoding(C, e.arg)
           From(n) == SubSeq(buf, n + 1, Len(buf))
       IN  IF e.op \notin {"write_scalar", "write_point"} \/ ~IsMirrored(e)
           THEN WrittenParts(C, buf, Tail(log))
           ELSE IF e.ok
           THEN /\ Len(enc) <= Len(buf) /\ SubSeq(buf, 1, Len(enc)) = enc
                /\ WrittenParts(C, From(Len(enc)), Tail(log))
           ELSE \E n \in 0..(Len(enc) - 1) :
                  /\ n <= Len(buf) /\ SubSeq(buf, 1, n) = SubSeq(enc, 1, n)
                  /\ WrittenParts(C, From(n), Tail(log))

\* C7 as claimed: whatever the writer, the prover's buffer is the
\* concatenation of the encodings its successful writes wrote, in order, and
\* nothing else.
C7_AsClaimed == Write_finalize(tw).buf = Written(tw.marker_c, wlog)

\* C7: the prover's buffer is the concatenation, in the order of the calls, of
\* what its writes wrote and nothing else: a write that succeeds appends the
\* whole encoding of its element, a write that fails on the writer a leading
\* part of it, short of the whole, and a write_point of the point at infinity
\* nothing.  So the buffer is the concatenation of the encodings of the
\* successful writes when no write failed on the writer.  common_point,
\* common_scalar and squeeze_challenge leave the writer, and on the verifier
\* the reader, as it was.
C7_BufferIsWrites ==
  /\ [](LET buf == Write_finalize(tw).buf IN
          /\ WrittenParts(tw.marker_c, buf, wlog)
          /\ NoWriterError(wlog, Len(wlog)) => buf = Written(tw.marker_c, wlog))
  /\ [][(Called(wlog, wlog') /\ LastOf(wlog').op \in {"write_scalar", "write_point"})
          => LET e == LastOf(wlog')
                 enc == WireEncoding(tw.marker_c, e.arg)
                 n == Len(tw'.io.buf) - Len(tw.io.buf)
             IN  /\ n \in 0..Len(enc)
                 /\ tw'.io.buf = tw.io.buf \o SubSeq(enc, 1, n)
                 /\ e.ok => n = Len(enc)
                 /\ IsWriterError(e) => n < Len(enc)
                 /\ ~IsMirrored(e) => n = 0]_vars
  /\ [][(Called(wlog, wlog')
            /\ LastOf(wlog').op \in {"common_point", "common_scalar", "squeeze_challenge"})
          => tw'.io = tw.io]_vars
  /\ [][(Called(rlog, rlog')
            /\ LastOf(rlog').op \in {"common_point", "common_scalar", "squeeze_challenge"})
          => tr'.io = tr.io]_vars

\* C7's case: a scalar was written, the write of a point then failed on the
\* writer, which took a part of the encoding, and a scalar was written after
\* it; the verifier has made a call.
C7_Witness ==
  /\ Len(wlog) = 3 /\ Len(rlog) >= 1
  /\ wlog[1].op = "write_scalar" /\ wlog[1].ok
  /\ wlog[2].op = "write_point" /\ IsWriterError(wlog[2])
  /\ wlog[3].op = "write_scalar" /\ wlog[3].ok
  /\ Len(Write_finalize(tw).buf) = 2 * ReprLen + 1

\* ------------------------------------------------------ Proof::create
\* The events of one attempt, for a call with n points, and k attempts in a row.
AttemptEvents(n) ==
  <<"absorb_f_commitment", "x6">> \o [i \in 1..n |-> "absorb_eval"]
    \o <<"squeeze_scalar", "absorb_scalar_out", "x7", "open">>
RECURSIVE Attempts(_, _)
Attempts(n, k) == IF k = 0 THEN <<>> ELSE AttemptEvents(n) \o Attempts(n, k - 1)
IsPrefixOf(a, b) == Len(a) <= Len(b) /\ SubSeq(b, 1, Len(a)) = a

\* The main transcript of the current attempt when x_6 is derived from it: the
\* caller's, after the squeezes of x_4 and x_5, with f_commitment absorbed.
MainAtX6 ==
  LET pt == ToAffine(cr.f_commitment) IN
  inp.transcript \o <<HSqueezeItem, HSqueezeItem, HAbsorbItem(pt.x), HAbsorbItem(pt.y)>>
\* The scalar transcript of the current attempt when it is squeezed: the
\* caller's with the evaluations at x_6 absorbed, in the order of the points.
ScalarAtSqueeze ==
  inp.transcript_scalar
    \o [i \in 1..Len(inp.points) |-> HAbsorbItem(EvalPolynomial(cr.q_polys[i].v, cr.x_6))]
\* The main transcript of the current attempt when x_7 is derived from it.
MainAtX7 ==
  MainAtX6 \o <<HSqueezeItem,
                HAbsorbItem(HSqueezeOut(ScalarAtSqueeze, inp.seed, ScalarModulus))>>

\* C9: the events of a call of Proof::create are x4, x5, and then, attempt
\* after attempt, f_commitment absorbed, x6, the evaluations at x6 absorbed
\* into the scalar transcript, that transcript squeezed and its output
\* absorbed into the main one, x7, and the opening; x4 and x5 are derived from
\* the caller's transcript, x6 from the transcript that has absorbed
\* f_commitment, and x7 from the one that has also absorbed the output of the
\* scalar transcript, which has absorbed every evaluation at x6.
C9_EventOrder ==
  LET n == Len(inp.points) IN
  /\ IsPrefixOf(cr.events, <<"x4", "x5">> \o Attempts(n, cr.attempts + 1))
  /\ cr.pc = "attempt" => cr.events = <<"x4", "x5">> \o Attempts(n, cr.attempts)
  /\ cr.pc \in {"open", "done"} =>
       cr.events = (IF cr.pc = "done" THEN <<"x4", "x5">> \o Attempts(n, cr.attempts + 1)
                    ELSE <<"x4", "x5">> \o Attempts(n, cr.attempts)
                           \o SubSeq(AttemptEvents(n), 1, n + 5))
  /\ cr.pc \notin {"idle", "x4"} => cr.x_4 = SqueezeChallenge(inp.transcript, inp.seed)
  /\ cr.pc \in {"f_poly", "attempt", "evals", "x7", "open", "done"} =>
       cr.x_5 = SqueezeChallenge(Append(inp.transcript, HSqueezeItem), inp.seed)
  /\ cr.pc \in {"evals", "x7", "open", "done"} =>
       cr.x_6 = SqueezeChallenge(MainAtX6, inp.seed)
  /\ cr.pc \in {"open", "done"} =>
       /\ cr.x_7 = SqueezeChallenge(MainAtX7, inp.seed)
       /\ cr.ts = Append(ScalarAtSqueeze, HSqueezeItem)

\* C9's case: a call has come to its end in its second attempt or a later one.
C9_Witness ==
  /\ cr.pc = "done" /\ cr.attempts >= 1
  /\ Len(cr.events) = 2 + (cr.attempts + 1) * (Len(inp.points) + 6)

\* The instances among the first `done` ones that are at the point index i
\* (from 0), in the order they were handed over.
InstancesAt(i, done) ==
  SelectSeq(SubSeq(inp.instances, 1, done), LAMBDA e : e.point_index = i)
\* sum over m of x^(k-m) times vals[m], for k values.
RECURSIVE PowerSum(_, _, _)
PowerSum(vals, x, m) ==
  IF m > Len(vals) THEN 0
  ELSE (Pow(x, Len(vals) - m) * vals[m] + PowerSum(vals, x, m + 1)) % ScalarModulus

\* C10: once x4 is derived, and so after step 1, the aggregate blind and
\* evaluation of every point index are the sums over m of x4^(k-m) times the
\* blind and the evaluation of the m-th of the k instances at that index that
\* have been folded in, and the aggregate polynomial is, coefficient by
\* coefficient, the same sum of their polynomials (there is none for k = 0);
\* the instances at other indices do not appear in it.
C10_HornerFold ==
  cr.pc \notin {"idle", "x4"} =>
    \A i \in 1..Len(inp.points) :
      LET js == InstancesAt(i - 1, cr.next - 1)
          k == Len(js)
      IN  /\ cr.q_blinds[i] = PowerSum([m \in 1..k |-> js[m].blind], cr.x_4, 1)
          /\ cr.q_evals[i] = PowerSum([m \in 1..k |-> js[m].eval], cr.x_4, 1)
          /\ cr.q_polys[i].some = (k > 0)
          /\ k > 0 =>
               /\ Len(cr.q_polys[i].v) = Len(js[1].poly)
               /\ \A d \in 1..Len(js[1].poly) :
                    cr.q_polys[i].v[d] = PowerSum([m \in 1..k |-> js[m].poly[d]], cr.x_4, 1)

\* C10's case: step 1 is over for a call with three instances, two of them,
\* with different polynomials, at one point index and the third at another,
\* and x4 is neither 0 nor 1.
C10_Witness ==
  /\ cr.pc = "f_poly" /\ cr.next = Len(inp.instances) + 1
  /\ cr.x_4 \notin {0, 1}
  /\ \E i, j \in 0..(Len(inp.points) - 1) :
       /\ i # j
       /\ Len(InstancesAt(i, cr.next - 1)) = 2
       /\ InstancesAt(i, cr.next - 1)[1].poly # InstancesAt(i, cr.next - 1)[2].poly
       /\ Len(InstancesAt(j, cr.next - 1)) = 1

\* The value of a polynomial at z, as the sum of its terms.
RECURSIVE PolyAt(_, _, _)
PolyAt(poly, z, d) ==
  IF d > Len(poly) THEN 0
  ELSE (poly[d] * Pow(z, d - 1) + PolyAt(poly, z, d + 1)) % ScalarModulus
\* Every instance claims the value its polynomial has at its point.
EvalsCorrect ==
  \A m \in 1..Len(inp.instances) :
    LET e == inp.instances[m] IN
    e.eval = PolyAt(e.poly, inp.points[e.point_index + 1], 1)
\* The coefficients of w(X) * (X - z), one more than those of w.
TimesLinear(w, z) ==
  [d \in 1..(Len(w) + 1) |->
     FSub(IF d > 1 THEN w[d - 1] ELSE 0, IF d <= Len(w) THEN FMul(z, w[d]) ELSE 0)]
\* The witness polynomials of the points, in the order of the point indices.
WitnessPolys == [i \in 1..Len(inp.points) |-> WitnessPoly(cr, inp, i)]

\* C11: once f_poly is computed in a call whose instances all claim correct
\* evaluations, the witness polynomial w_i of every point satisfies
\* w_i(X) * (X - point_i) = q_poly_i(X) - q_eval_i, coefficient by coefficient
\* with no remainder, and every coefficient of f_poly is the sum over i of
\* x5^(n-1-i) times that coefficient of w_i, the points taken in index order.
C11_WitnessFold ==
  (cr.pc \in {"attempt", "evals", "x7", "open", "done"} /\ EvalsCorrect) =>
    LET n == Len(inp.points) IN
    /\ \A i \in 1..n :
         TimesLinear(WitnessPolys[i], inp.points[i])
           = Append([cr.q_polys[i].v EXCEPT ![1] = FSub(@, cr.q_evals[i])], 0)
    /\ Len(cr.f_poly) = Len(WitnessPolys[1])
    /\ \A d \in 1..Len(cr.f_poly) :
         cr.f_poly[d] = PowerSum([i \in 1..n |-> WitnessPolys[i][d]], cr.x_5, 1)

\* C11's case: f_poly is computed from two different witness polynomials, for
\* correct evaluations, with x5 neither 0 nor 1.
C11_Witness ==
  /\ cr.pc = "attempt" /\ cr.attempts = 0 /\ EvalsCorrect
  /\ cr.x_5 \notin {0, 1}
  /\ WitnessPolys[1] # WitnessPolys[2]
  /\ \A i \in 1..Len(inp.points) : \E d \in 1..Len(WitnessPolys[i]) : WitnessPolys[i][d] # 0

\* The places of a call of Proof::create: "done" is the return of Ok(Proof),
\* "panic" an unwrap that failed; there is no return of Err.
CreatePlaces ==
  {"idle", "x4", "accumulate", "f_poly", "attempt", "evals", "x7", "open", "done", "panic"}

\* C12: a call of the opening primitive is followed by the return of Ok or,
\* when it failed, by a new attempt, however many there were, for which the
\* blind of f_poly is one more, f_commitment is shifted by the blinding
\* generator h, and f_poly and the aggregates of step 1 are as they were; the
\* call is never at a return of Err.
C12_RetryOnFailure ==
  /\ [](cr.pc \in CreatePlaces)
  /\ [][cr.pc = "open" =>
          \/ cr'.pc = "done"
          \/ /\ cr'.pc = "attempt"
             /\ cr'.f_blind = FAdd(cr.f_blind, 1)
             /\ cr'.f_commitment = FAdd(cr.f_commitment, Params.h)
             /\ cr'.attempts = cr.attempts + 1
             /\ cr'.f_poly = cr.f_poly
             /\ <<cr'.q_polys, cr'.q_blinds, cr'.q_evals>> = <<cr.q_polys, cr.q_blinds, cr.q_evals>>
             /\ cr'.proof = cr.proof]_vars

\* C12's case: the opening failed twice and a third attempt is under way.
C12_Witness == cr.pc = "evals" /\ cr.attempts = 2

\* The caller's main transcript once x_5 is derived.
MainAfterX5 == inp.transcript \o <<HSqueezeItem, HSqueezeItem>>

\* C13: from the derivation of x5 on, the caller's two transcripts stay as
\* they are, the main one as x5 left it and the scalar one as it was handed
\* over, through every attempt; and every attempt starts from them: its main
\* clone is the caller's main transcript followed by the absorbed f_commitment
\* and the squeeze of x6, its scalar clone the caller's scalar transcript.
C13_FreshClones ==
  /\ [](cr.pc \in {"f_poly", "attempt", "evals", "x7", "open", "done"} =>
          cr.transcript = MainAfterX5 /\ cr.transcript_scalar = inp.transcript_scalar)
  /\ [][cr.pc \in {"attempt", "evals", "x7", "open"} =>
          cr'.transcript = cr.transcript /\ cr'.transcript_scalar = cr.transcript_scalar]_vars
  /\ [][(cr.pc = "attempt" /\ cr'.pc = "evals") =>
          /\ cr'.t = MainAfterX5
                       \o <<HAbsorbItem(ToAffine(cr.f_commitment).x),
                            HAbsorbItem(ToAffine(cr.f_commitment).y), HSqueezeItem>>
          /\ cr'.ts = inp.transcript_scalar]_vars

\* C13's case: an attempt after a failed one has absorbed and squeezed on its
\* clones, up to the call of the opening.
C13_Witness ==
  /\ cr.pc = "open" /\ cr.attempts >= 1
  /\ cr.t # cr.transcript /\ cr.ts # cr.transcript_scalar

\* Every point index has an instance, as it has when the points are those of
\* the instances.
PointsQueried ==
  \A i \in 1..Len(inp.points) : \E m \in 1..Len(inp.instances) :
    inp.instances[m].point_index = i - 1

\* C14 as claimed: when the opening primitive succeeds at some call, the call
\* of Proof::create comes to return Ok.
C14_AsClaimed == PointsQueried => <>(cr.pc = "done")

\* C14, as far as it holds: when the opening primitive succeeds at some call,
\* the call of Proof::create comes to return Ok or to an unwrap that fails.
C14_Ends == <>(cr.pc \in {"done", "panic"})

\* C15: the Proof that Proof::create returns holds one evaluation for every
\* point index, the value of that point's aggregate polynomial at the x6 of the
\* attempt that succeeded; the f_commitment absorbed in that attempt, which is
\* the commitment to f_poly under the first blind plus h for every failed
\* attempt; and the opening of that attempt, made for its final polynomial,
\* blind and x6, the last thing its transcript clone was used for.
C15_ReturnedProof ==
  cr.pc = "done" =>
    LET n == Len(inp.points)
        first_blind == FSub(cr.f_blind, cr.attempts % ScalarModulus)
        pt == ToAffine(cr.proof.f_commitment)
    IN  /\ Len(cr.proof.q_evals) = n
        /\ \A i \in 1..n : cr.proof.q_evals[i] = PolyAt(cr.q_polys[i].v, cr.x_6, 1)
        /\ cr.x_6 = SqueezeChallenge(MainAtX6, inp.seed)
        /\ cr.proof.f_commitment
             = FAdd(Commit(Params, cr.f_poly, first_blind), FMul(cr.attempts, Params.h))
        /\ SubSeq(cr.t, Len(MainAfterX5) + 1, Len(MainAfterX5) + 2)
             = <<HAbsorbItem(pt.x), HAbsorbItem(pt.y)>>
        /\ cr.proof.opening
             = [poly |-> cr.f_poly_dup, blind |-> cr.f_blind_dup, point |-> cr.x_6]
        /\ cr.t[Len(cr.t)] = HOpeningItem
        /\ Len(cr.t) = Len(MainAtX7) + 2

\* C15's case: a call has returned after two failed attempts, with evaluations
\* at x6 that are not the aggregate evaluations of step 1.
C15_Witness ==
  /\ cr.pc = "done" /\ cr.attempts = 2
  /\ cr.proof.q_evals # cr.q_evals
  /\ cr.proof.f_commitment # Commit(Params, cr.f_poly, FSub(cr.f_blind, 2))

\* C16: the polynomial and the blind an attempt hands to the opening are, with
\* the x7 of the attempt, the sums x7^n f + x7^(n-1) q_0 + ... + q_(n-1) of
\* f_poly and the aggregate polynomials, coefficient by coefficient, and of
\* f_blind and the aggregate blinds, in point-index order; the point of the
\* opening is the x6 of the attempt.
C16_FinalFold ==
  cr.pc \in {"open", "done"} =>
    LET n == Len(inp.points) IN
    /\ cr.f_blind_dup = PowerSum(<<cr.f_blind>> \o cr.q_blinds, cr.x_7, 1)
    /\ Len(cr.f_poly_dup) = Len(cr.f_poly)
    /\ \A d \in 1..Len(cr.f_poly) :
         cr.f_poly_dup[d]
           = PowerSum(<<cr.f_poly[d]>> \o [i \in 1..n |-> cr.q_polys[i].v[d]], cr.x_7, 1)
    /\ cr.x_7 = SqueezeChallenge(MainAtX7, inp.seed)
    /\ cr.x_6 = SqueezeChallenge(MainAtX6, inp.seed)
    /\ cr.pc = "done" =>
         /\ cr.proof.opening.poly = cr.f_poly_dup
         /\ cr.proof.opening.blind = cr.f_blind_dup
         /\ cr.proof.opening.point = cr.x_6

\* C16's case: an attempt is at the call of the opening with an x7 that is
\* neither 0 nor 1 and aggregate blinds that are not zero.
C16_Witness ==
  /\ cr.pc = "open" /\ cr.x_7 \notin {0, 1}
  /\ \A i \in 1..Len(inp.points) : cr.q_blinds[i] # 0
  /\ cr.f_blind_dup # cr.f_blind

\* -------------------------------------------- construct_intermediate_sets
\* The different elements of a sequence, in the order of their first places.
RECURSIVE Distinct(_)
Distinct(seq) ==
  IF seq = <<>> THEN <<>>
  ELSE LET front == Distinct(SubSeq(seq, 1, Len(seq) - 1))
           last == seq[Len(seq)]
       IN  IF \E i \in 1..Len(front) : front[i] = last THEN front ELSE Append(front, last)
\* The place, from 0, of an element of a sequence of different elements.
PlaceIn(seq, x) == (CHOOSE i \in 1..Len(seq) : seq[i] = x) - 1
\* The different points of the first n queries, in first-seen order.
PointsSeen(n) == Distinct([j \in 1..n |-> queries[j].point])
\* The first n queries that are about the polynomial with this identity.
QueriesOf(id, n) == SelectSeq(SubSeq(queries, 1, n), LAMBDA q : q.poly.id = id)

\* C18: once the first k queries are gone through, the points that have an
\* index are the points of these queries, the i-th different point, in the
\* order the queries first name them, has the index i - 1, and every
\* polynomial holds, query by query, the index of the point of the query; so
\* the indices are 0..n-1 and two queries have one index exactly when they
\* have one point.
C18_PointIndex ==
  cs.pc # "idle" =>
    LET n == IF cs.pc = "queries" THEN cs.k - 1 ELSE Len(queries)
        seen == PointsSeen(n)
    IN  /\ DOMAIN cs.point_index_map = {seen[i] : i \in 1..Len(seen)}
        /\ \A i \in 1..Len(seen) : cs.point_index_map[seen[i]] = i - 1
        /\ \A j \in 1..Len(cs.poly_map) :
             LET qs == QueriesOf(cs.poly_map[j].poly.id, n) IN
             cs.poly_map[j].data.point_indices = [m \in 1..Len(qs) |-> PlaceIn(seen, qs[m].point)]
        /\ \A a, b \in 1..n :
             (cs.point_index_map[queries[a].point] = cs.point_index_map[queries[b].point])
               <=> (queries[a].point = queries[b].point)

\* C18's case: the first point is named by two queries before the second
\* point is named.
C18_Witness ==
  /\ cs.pc = "done" /\ Len(queries) >= 3
  /\ queries[1].point = queries[2].point /\ queries[3].point # queries[1].point
  /\ cs.point_index_map[queries[3].point] = 1

\* The point indices the polynomial with this identity is queried at.
QueriedAt(id) ==
  {PlaceIn(PointsSeen(Len(queries)), queries[j].point) :
     j \in {j \in 1..Len(queries) : queries[j].poly.id = id}}

\* C19: in the result, two polynomials have the same set_index exactly when
\* the sets of point indices they are queried at are equal, whatever the order
\* of their queries and whatever their coefficients.
C19_SameSetSameIndex ==
  cs.pc = "done" =>
    \A a, b \in 1..Len(cs.poly_map) :
      (cs.poly_map[a].data.set_index = cs.poly_map[b].data.set_index)
        <=> (QueriedAt(cs.poly_map[a].poly.id) = QueriedAt(cs.poly_map[b].poly.id))

\* C19's case: one polynomial queried at the first point and then the second,
\* another at the second and then the first, have one set_index, and a
\* polynomial with the coefficients of another has a set_index of its own.
C19_Witness ==
  /\ cs.pc = "done"
  /\ \E a, b \in 1..Len(cs.poly_map) :
       /\ cs.poly_map[a].data.point_indices = <<0, 1>>
       /\ cs.poly_map[b].data.point_indices = <<1, 0>>
       /\ cs.poly_map[a].data.set_index = cs.poly_map[b].data.set_index

\* C19's other case: two polynomials with the same coefficients, queried at
\* different sets of points, have different set_index.
C19_WitnessOther ==
  /\ cs.pc = "done"
  /\ \E a, b \in 1..Len(cs.poly_map) :
       /\ cs.poly_map[a].poly.coeffs = cs.poly_map[b].poly.coeffs
       /\ cs.poly_map[a].data.set_index # cs.poly_map[b].data.set_index

\* C20: once the loop over poly_map is over, poly_map holds the polynomials
\* in the order the queries first name them, and the sets that have an index
\* are the sets of the polynomials, the i-th different set in that order with
\* the index i - 1; in the result the set_index of every polynomial is the
\* index of its set, so the set indices are 0..m-1 for m different sets.
C20_SetIndexOrder ==
  cs.pc \in {"populate", "done", "panic"} =>
    LET ids == Distinct([j \in 1..Len(queries) |-> queries[j].poly.id])
        sets == Distinct([j \in 1..Len(ids) |-> QueriedAt(ids[j])])
    IN  /\ [j \in 1..Len(cs.poly_map) |-> cs.poly_map[j].poly.id] = ids
        /\ DOMAIN cs.point_idx_sets = {sets[i] : i \in 1..Len(sets)}
        /\ \A i \in 1..Len(sets) : cs.point_idx_sets[sets[i]] = i - 1
        /\ cs.pc = "done" =>
             /\ \A j \in 1..Len(ids) :
                  cs.poly_map[j].data.set_index = PlaceIn(sets, QueriedAt(ids[j]))
             /\ {cs.poly_map[j].data.set_index : j \in 1..Len(ids)} = 0..(Len(sets) - 1)
             /\ Len(cs.point_sets) = Len(sets)

\* C20's case: the first two polynomials have one set and the third another,
\* which is the second set.
C20_Witness ==
  /\ cs.pc = "done" /\ Len(cs.poly_map) = 3
  /\ cs.poly_map[1].data.set_index = 0
  /\ cs.poly_map[2].data.set_index = 0
  /\ cs.poly_map[3].data.set_index = 1

\* The last of the queries that are about the polynomial with this identity
\* at the point with this index.
LastQueryAt(id, point_index) ==
  LET at == {j \in 1..Len(queries) :
               /\ queries[j].poly.id = id
               /\ PlaceIn(PointsSeen(Len(queries)), queries[j].point) = point_index}
  IN  queries[CHOOSE j \in at : \A i \in at : i <= j]

\* C21: in the result, for every polynomial and every k below the number of
\* different points it is queried at, evals[k] is the evaluation claimed by a
\* query of that polynomial at the point whose index is the k-th smallest of
\* the polynomial's set of point indices (by the last such query, when there
\* are several), whatever the order in which the queries arrived.
C21_EvalsInSetOrder ==
  cs.pc = "done" =>
    \A j \in 1..Len(cs.poly_map) :
      LET id == cs.poly_map[j].poly.id
          idx == Ascending(QueriedAt(id))
      IN  \A k \in 1..Len(idx) :
            cs.poly_map[j].data.evals[k] = LastQueryAt(id, idx[k]).eval

\* C21's case: a polynomial is queried at the point of index 1 before it is
\* queried at the point of index 0, with different evaluations, and its
\* evaluations are in the order of the indices.
C21_Witness ==
  /\ cs.pc = "done"
  /\ \E j \in 1..Len(cs.poly_map) :
       /\ cs.poly_map[j].data.point_indices = <<1, 0>>
       /\ cs.poly_map[j].data.evals[1] = LastQueryAt(cs.poly_map[j].poly.id, 0).eval
       /\ cs.poly_map[j].data.evals[1] # cs.poly_map[j].data.evals[2]

\* C22: once the first n queries are gone through, poly_map has one entry for
\* every polynomial identity of these queries, in the order the queries first
\* name them; every entry holds the blind of the first query of its identity
\* and as many point indices as there are queries of its identity, so a query
\* is added to the entry of its own identity and to no other, whatever the
\* coefficients.
C22_OneEntryPerIdentity ==
  cs.pc # "idle" =>
    LET n == IF cs.pc = "queries" THEN cs.k - 1 ELSE Len(queries)
        ids == Distinct([j \in 1..n |-> queries[j].poly.id])
    IN  /\ Len(cs.poly_map) = Len(ids)
        /\ \A j \in 1..Len(ids) :
             /\ cs.poly_map[j].poly.id = ids[j]
             /\ cs.poly_map[j].poly = QueriesOf(ids[j], n)[1].poly
             /\ cs.poly_map[j].data.blind = QueriesOf(ids[j], n)[1].blind
             /\ Len(cs.poly_map[j].data.point_indices) = Len(QueriesOf(ids[j], n))
        /\ \A a, b \in 1..Len(cs.poly_map) :
             cs.poly_map[a].poly.id = cs.poly_map[b].poly.id => a = b

\* C22's case: two polynomials with equal coefficients and different
\* identities have an entry each, the second with one point index only.
C22_Witness ==
  /\ cs.pc = "done"
  /\ \E a, b \in 1..Len(cs.poly_map) :
       /\ a < b
       /\ cs.poly_map[a].poly.coeffs = cs.poly_map[b].poly.coeffs
       /\ cs.poly_map[a].poly.id # cs.poly_map[b].poly.id
       /\ Len(cs.poly_map[a].data.point_indices) = 2
       /\ Len(cs.poly_map[b].data.point_indices) = 1

\* ------------------------------------------------------------ challenges
\* C23: for every digest, Challenge255::new stores the normalized encoding of
\* the digest, read as a little-endian integer of 2 * ReprLen bytes and
\* reduced modulo the scalar modulus; the stored bytes decode, so get_scalar
\* does not panic, and it returns that scalar.
C23_WideReduction ==
  /\ ch.pc # "panic"
  /\ ch.pc \in {"get255", "done255"} =>
       LET reduced == FromLE(ch.input) % ScalarModulus IN
       /\ Len(ch.stored) = ReprLen
       /\ FromLE(ch.stored) = reduced
       /\ FromLE(ch.stored) < ScalarModulus
       /\ ch.pc = "done255" => ch.scalar = reduced

\* C23's case: a digest whose lower half and whose whole are both beyond the
\* scalar modulus.
C23_Witness ==
  /\ ch.pc = "done255"
  /\ FromLE(SubSeq(ch.input, 1, ReprLen)) >= ScalarModulus
  /\ FromLE(ch.input) >= Pow(ByteBase, ReprLen)
  /\ ch.scalar # FromLE(SubSeq(ch.input, 1, ReprLen)) % ScalarModulus

\* The sign and the endomorphism factor of the i-th bit pair of c, as an
\* integer: -1 or 1, times Zeta when the even bit is set.
PairTerm(c, i) ==
  (IF Bit(c, 2 * i + 1) = 1 THEN -1 ELSE 1) * (IF Bit(c, 2 * i) = 1 THEN Zeta ELSE 1)
RECURSIVE PairSum(_, _)
PairSum(c, n) == IF n = 0 THEN 0 ELSE PairSum(c, n - 1) + Pow(2, n - 1) * PairTerm(c, n - 1)

\* C24: the scalar of Challenge128(c) is what the recurrence gives: from
\* 2 * (Zeta + 1), doubling and adding the term of the pair, from the highest
\* pair to the lowest; unrolled, that is 2^EndoPairs * 2 * (Zeta + 1) plus the
\* sum of 2^i times the term of pair i.  It is a function of c.
C24_Endoscaling ==
  ch.pc = "done128" =>
    ch.scalar = (Pow(2, EndoPairs) * 2 * (Zeta + 1) + PairSum(ch.c, EndoPairs)) % ScalarModulus

\* C24's case: a value whose pairs differ, the higher one negating and the
\* lower one applying the endomorphism.
C24_Witness ==
  /\ ch.pc = "done128"
  /\ Bit(ch.c, 3) = 1 /\ Bit(ch.c, 2) = 0 /\ Bit(ch.c, 1) = 0 /\ Bit(ch.c, 0) = 1

\* ------------------------------------------- multi-scalar multiplication
\* C26 as claimed: should_use_cpu_msm returns, and it returns true exactly
\* when the size is at most 2^k, k being the setting, or the default when
\* the setting is absent.
C26_AsClaimed ==
  (msm.pc \notin {"idle", "select"} /\ (msm.setting.some => msm.setting.v <= U8Max)) =>
    LET k == IF msm.setting.some THEN msm.setting.v ELSE DefaultSmallK
        claimed == Len(msm.coeffs) <= Pow(2, k)
    IN  /\ msm.path # "none"
        /\ (msm.path = "cpu") = claimed

\* C26's cases: with the setting absent, the size 2^DefaultSmallK takes the
\* CPU path and the next size the accelerator's.
C26_WitnessDefault ==
  /\ msm.pc # "idle" /\ msm.pc # "select" /\ ~msm.setting.some
  /\ \/ Len(msm.coeffs) = Pow(2, DefaultSmallK) /\ msm.path = "cpu"
     \/ Len(msm.coeffs) = Pow(2, DefaultSmallK) + 1 /\ msm.path = "device"

\* ----------------------------------------------- the parallel Horner update
\* C27: whatever the ranges and however the steps of their closures
\* interleave, no index is in two ranges, every update that has ended has
\* left q[i] * x + a[i] at its index, and when parallelize returns every
\* index has been updated once and the vector is the one the sequential
\* update gives.
C27_ParallelHorner ==
  par.pc # "idle" =>
    /\ \A j, k \in 1..Len(par.ranges) :
         j < k => par.ranges[j].start + par.ranges[j].len <= par.ranges[k].start
    /\ \A n \in 1..Len(par.log) :
         par.q[par.log[n] + 1] = FAdd(FMul(par.q0[par.log[n] + 1], par.x), par.a[par.log[n] + 1])
    /\ \A m, n \in 1..Len(par.log) : par.log[m] = par.log[n] => m = n
    /\ par.pc = "done" =>
         /\ {par.log[n] : n \in 1..Len(par.log)} = 0..(Len(par.q) - 1)
         /\ par.q = HornerZip(par.q0, par.a, par.x)
         /\ par.q = Parallelize(par.q0, par.a, par.x)

\* C27's case: three ranges whose updates ended in the order opposite to
\* that of the indices, on a polynomial whose coefficients differ.
C27_Witness ==
  /\ par.pc = "done" /\ Len(par.ranges) = 3
  /\ par.log = <<2, 1, 0>>
  /\ par.a[1] # par.a[2]

\* ------------------------------------------------------------ Poseidon
\* The message followed by zeros up to the rate, and the capacity word.
PaddedState(message, capacity) ==
  [i \in 1..Width |->
     IF i <= Len(message) THEN message[i] ELSE IF i = Rate + 1 THEN capacity ELSE 0]

\* C28: for a domain ConstantLength(L) with L at most the rate, the hash of
\* a message of L elements is the first word of the state after one
\* permutation of the state whose rate words are the message followed by
\* zeros and whose capacity word is L * 2^CapacityShift, and the hash has
\* applied the permutation once.
C28_OnePermutation ==
  (sponge.pc = "done" /\ sponge.domain <= Rate) =>
    /\ sponge.out.some
    /\ sponge.out.v =
         Permute(PaddedState(sponge.message,
                             (sponge.domain * Pow(2, CapacityShift)) % ScalarModulus))[1]
    /\ sponge.duplex.permutations = 1

\* C28's cases: a message that fills the rate, and a shorter one.
C28_Witness ==
  /\ sponge.pc = "done" /\ sponge.domain = Rate
  /\ sponge.message = <<1, 5>>
C28_WitnessShort ==
  /\ sponge.pc = "done" /\ sponge.domain = 1 /\ sponge.message = <<5>>

\* The sponge after the elements of a message are absorbed.
RECURSIVE AbsorbedAll(_, _)
AbsorbedAll(d, message) ==
  IF message = <<>> THEN d ELSE AbsorbedAll(DuplexAbsorb(d, Head(message)), Tail(message))

\* C29: the call goes past the assertion exactly when the message has as
\* many elements as the domain says, and panics otherwise; at the panic the
\* elements are all absorbed and nothing is squeezed.
C29_LengthChecked ==
  /\ sponge.pc \in {"squeeze", "done"} => Len(sponge.message) = sponge.domain
  /\ sponge.pc = "done" => sponge.out.some
  /\ sponge.pc \in {"squeeze", "panic"} =>
       /\ sponge.duplex =
            AbsorbedAll(DuplexNew(InitialCapacityElement(sponge.domain)), sponge.message)
       /\ sponge.duplex.sponge.mode = "Absorbing"
       /\ ~sponge.out.some
  /\ sponge.pc = "panic" => Len(sponge.message) # sponge.domain

\* C29's cases: a message shorter than the domain's length, and a longer one
\* that went through a permutation while it was absorbed.
C29_Witness ==
  /\ sponge.pc = "panic" /\ Len(sponge.message) < sponge.domain /\ Len(sponge.message) > 0
C29_WitnessLonger ==
  /\ sponge.pc = "panic" /\ Len(sponge.message) > sponge.domain
  /\ sponge.duplex.permutations = 1

\* --------------------------------------------------------- batch_invert
\* The product of the elements of a sequence that are not zero.
RECURSIVE NonZeroProduct(_)
NonZeroProduct(v) ==
  IF v = <<>> THEN 1
  ELSE IF Head(v) = 0 THEN NonZeroProduct(Tail(v))
  ELSE FMul(Head(v), NonZeroProduct(Tail(v)))

\* C30: batch_invert does not panic; when it returns, every element that was
\* not zero is replaced by its inverse, every zero is left zero, and the
\* value returned is the inverse of the product of the elements that were
\* not zero: one for an empty or an all-zero slice.
C30_BatchInvert ==
  /\ bi.pc # "panic"
  /\ bi.pc = "done" =>
       /\ Len(bi.v) = Len(bi.v0)
       /\ \A i \in 1..Len(bi.v0) :
            IF bi.v0[i] = 0 THEN bi.v[i] = 0 ELSE FMul(bi.v[i], bi.v0[i]) = 1
       /\ FMul(bi.allinv, NonZeroProduct(bi.v0)) = 1
       /\ (\A i \in 1..Len(bi.v0) : bi.v0[i] = 0) => bi.allinv = 1

\* C30's cases: a slice with a zero between two elements that are neither
\* zero nor one, and a slice of zeros.
C30_Witness ==
  /\ bi.pc = "done" /\ Len(bi.v0) = 3
  /\ bi.v0[1] \notin {0, 1} /\ bi.v0[2] = 0 /\ bi.v0[3] \notin {0, 1}
  /\ bi.v[1] # bi.v0[1]
C30_WitnessZeros ==
  /\ bi.pc = "done" /\ bi.v0 = <<0, 0>> /\ bi.allinv = 1

\* ------------------------------------------------ Proof::create, the rest
\* C31: at the start of every attempt, and through it, f_commitment is the
\* commitment to f_poly under the current f_blind: after a failure the blind
\* is one more and the commitment is shifted by h, and the commitment to a
\* polynomial under a blind one more is the commitment shifted by h.
C31_CommitmentTracksBlind ==
  cr.pc \in {"attempt", "evals", "x7", "open", "done"} =>
    /\ cr.f_commitment = Commit(Params, cr.f_poly, cr.f_blind)
    /\ Commit(Params, cr.f_poly, FAdd(cr.f_blind, 1)) = FAdd(cr.f_commitment, Params.h)

\* C31's case: the start of the third attempt, after two failures.
C31_Witness ==
  /\ cr.pc = "attempt" /\ cr.attempts = 2
  /\ cr.f_commitment = Commit(Params, cr.f_poly, cr.f_blind)

\* C32 as claimed: the value the scalar transcript squeezes is always
\* converted, so an attempt that has its evaluations goes on to x_7.
C32_AsClaimed == [][cr.pc = "evals" => cr'.pc = "x7"]_vars

\* C32's case as far as it holds: the value squeezed is below the base
\* modulus, and the main clone absorbs the base field element of that value.
C32_WitnessSmall ==
  /\ cr.pc = "x7"
  /\ cr.t[Len(cr.t)] =
       HAbsorbItem(HSqueezeOut(AbsorbAll(inp.transcript_scalar, cr.evals6), inp.seed,
                               ScalarModulus))

\* C37: when Proof::create returns, the caller's main transcript is the one
\* handed over followed by the two squeezes of x4 and x5, and the caller's
\* scalar transcript is the one handed over; the clones of the attempt that
\* succeeded hold the rest: the main clone the coordinates of f_commitment,
\* the squeeze of x6, the scalar transcript's output, the squeeze of x7 and
\* the opening, the scalar clone the evaluations and its squeeze.
C37_CallerTranscripts ==
  cr.pc = "done" =>
    /\ cr.transcript = inp.transcript \o <<HSqueezeItem, HSqueezeItem>>
    /\ cr.transcript_scalar = inp.transcript_scalar
    /\ Len(cr.t) = Len(cr.transcript) + 6
    /\ IsPrefixOf(cr.transcript, cr.t)
    /\ cr.t[Len(cr.transcript) + 1] = HAbsorbItem(ToAffine(cr.f_commitment).x)
    /\ cr.t[Len(cr.transcript) + 3] = HSqueezeItem
    /\ cr.t[Len(cr.transcript) + 5] = HSqueezeItem
    /\ cr.t[Len(cr.transcript) + 6] = HOpeningItem
    /\ cr.ts = Append(AbsorbAll(inp.transcript_scalar, cr.evals6), HSqueezeItem)

\* C37's case: the call returns from its second attempt.
C37_Witness ==
  /\ cr.pc = "done" /\ cr.attempts = 1
  /\ cr.t # cr.transcript /\ cr.ts # cr.transcript_scalar

\* ------------------------------------- construct_intermediate_sets, the rest
\* C35: in the result, point_sets has an entry for every different set of
\* point indices; the entry of the set with index s lists the points of the
\* set from the lowest point index up, each once; the set_index of every
\* polynomial is an index of point_sets and the points there are the points
\* the polynomial is queried at.
C35_PointSets ==
  cs.pc = "done" =>
    LET seen == PointsSeen(Len(queries))
        ids == Distinct([j \in 1..Len(queries) |-> queries[j].poly.id])
        sets == Distinct([j \in 1..Len(ids) |-> QueriedAt(ids[j])])
    IN  /\ Len(cs.point_sets) = Len(sets)
        /\ \A s \in 1..Len(sets) :
             LET idx == Ascending(sets[s]) IN
             /\ cs.point_sets[s] = [j \in 1..Len(idx) |-> seen[idx[j] + 1]]
             /\ \A a, b \in 1..Len(cs.point_sets[s]) :
                  cs.point_sets[s][a] = cs.point_sets[s][b] => a = b
        /\ \A j \in 1..Len(cs.poly_map) :
             LET at == cs.poly_map[j].data.set_index + 1 IN
             /\ at \in 1..Len(cs.point_sets)
             /\ {cs.point_sets[at][a] : a \in 1..Len(cs.point_sets[at])} =
                  {queries[q].point :
                     q \in {q \in 1..Len(queries) : queries[q].poly.id = cs.poly_map[j].poly.id}}

\* C35's case: two sets, one of them of two points of which the greater was
\* named first and so comes first.
C35_Witness ==
  /\ cs.pc = "done" /\ Len(cs.point_sets) = 2
  /\ \E s \in 1..2 :
       /\ Len(cs.point_sets[s]) = 2
       /\ cs.point_sets[s][1] > cs.point_sets[s][2]

\* C38 as claimed: in the result the evaluations of a polynomial are as many
\* as the different points it is queried at.
C38_AsClaimed ==
  cs.pc = "done" =>
    \A j \in 1..Len(cs.poly_map) :
      Len(cs.poly_map[j].data.evals) = Cardinality(QueriedAt(cs.poly_map[j].poly.id))

\* C38's case as far as it holds: a polynomial queried at two points, once at
\* each, has two evaluations.
C38_WitnessOnceEach ==
  /\ cs.pc = "done"
  /\ \E j \in 1..Len(cs.poly_map) :
       /\ Len(cs.poly_map[j].data.point_indices) = 2
       /\ Cardinality(QueriedAt(cs.poly_map[j].poly.id)) = 2
       /\ Len(cs.poly_map[j].data.evals) = 2

\* ------------------------------------------------- the transcript, the rest
\* The challenges a transcript has returned, in order.
ChallengesOf(log) ==
  LET sq == SelectSeq(log, LAMBDA e : e.op = "squeeze_challenge")
  IN  [i \in 1..Len(sq) |-> sq[i].out.ch]

\* C39: a transcript that absorbed a point and one that absorbed, in its
\* place, the two scalars with the encodings of the point's coordinates have
\* the same hash state and have returned the same challenges; the hash input
\* is the bare concatenation of the encodings.
C39_NoElementMarker ==
  /\ tw.state = tw2.state /\ tr.state = tw2.state
  /\ ChallengesOf(wlog) = ChallengesOf(w2log)
  /\ ChallengesOf(rlog) = ChallengesOf(w2log)
  /\ \A i \in 1..Len(wlog) :
       (wlog[i].op = "common_point" /\ wlog[i].ok /\ Len(wlog) = i) =>
         tw.state.input = SubSeq(tw.state.input, 1, Len(tw.state.input) - 2 * ReprLen)
                            \o ToBytes(wlog[i].arg.p.x) \o ToBytes(wlog[i].arg.p.y)

\* C39's case: the writer absorbed a point with different coordinates where
\* the second transcript absorbed two scalars, and both then squeezed.
C39_Witness ==
  /\ Len(wlog) = 2 /\ Len(w2log) = 3
  /\ wlog[1].op = "common_point" /\ wlog[1].ok /\ wlog[1].arg.p.x # wlog[1].arg.p.y
  /\ w2log[1].op = "common_scalar" /\ w2log[2].op = "common_scalar"
  /\ w2log[1].arg.s = wlog[1].arg.p.x /\ w2log[2].arg.s = wlog[1].arg.p.y
  /\ wlog[2].op = "squeeze_challenge" /\ w2log[3].op = "squeeze_challenge"
  /\ wlog[2].out.ch = w2log[3].out.ch

\* ------------------------------------------------- permutation::Argument
\* C36: after any calls of add_column the list of columns has no column
\* twice, has every column that was added, has the columns in the order in
\* which they were first added, and get_columns returns that list; a call
\* with a column that is there leaves the list as it was.
C36_Columns ==
  /\ [](perm.pc = "made" =>
          /\ \A a, b \in 1..Len(perm.arg.columns) :
               perm.arg.columns[a] = perm.arg.columns[b] => a = b
          /\ \A i \in 1..Len(perm.added) : Contains(perm.arg.columns, perm.added[i])
          /\ perm.arg.columns = Distinct(perm.added)
          /\ Argument_get_columns(perm.arg) = perm.arg.columns)
  /\ [][(/\ perm.pc = "made"
         /\ Len(perm'.added) = Len(perm.added) + 1
         /\ Contains(perm.arg.columns, perm'.added[Len(perm'.added)]))
          => perm'.arg.columns = perm.arg.columns]_vars

\* C36's case: a column was added again after another with the same index and
\* another type came between, and get_columns returned the two columns.
C36_Witness ==
  /\ perm.pc = "made" /\ Len(perm.added) = 3
  /\ perm.added[1] = perm.added[3] /\ perm.added[1] # perm.added[2]
  /\ perm.added[1].index = perm.added[2].index
  /\ perm.got = <<perm.added[1], perm.added[2]>>

\* ------------------------------------------------------ the Poseidon Duplex
\* The values of a buffer, in order.
Values(rate) ==
  LET on == SelectSeq(rate, LAMBDA entry : entry.some)
  IN  [i \in 1..Len(on) |-> on[i].v]
\* The values of the inputs of the permutations, in order.
RECURSIVE Flatten(_)
Flatten(blocks) ==
  IF blocks = <<>> THEN <<>>
  ELSE Flatten(SubSeq(blocks, 1, Len(blocks) - 1)) \o Values(blocks[Len(blocks)])
\* The state after the permutation was run on these inputs, one after another.
RECURSIVE StateAfter(_, _)
StateAfter(state, blocks) ==
  IF blocks = <<>> THEN state
  ELSE Permute(PadAndAdd(StateAfter(state, SubSeq(blocks, 1, Len(blocks) - 1)),
                         blocks[Len(blocks)]))
\* The values the Duplex holds that are not in the state yet.
Buffered(d) == IF d.sponge.mode = "Absorbing" THEN Values(d.sponge.rate) ELSE <<>>
\* The buffer has a free place.
HasRoom(d) == d.sponge.mode = "Absorbing" /\ \E i \in 1..Rate : ~d.sponge.rate[i].some
\* This step is a call of absorb.
AbsorbStep == Len(duplex'.absorbed) = Len(duplex.absorbed) + 1
Absorbed == duplex'.absorbed[Len(duplex'.absorbed)]

\* C33: the values absorbed are, in the order of the calls, the values of the
\* inputs the permutation was run on followed by the values in the buffer,
\* each once, and the state is the state the Duplex was made with after these
\* permutations; an element returned by squeeze was read from a state that
\* every value absorbed before it was added to.  An absorb into a buffer with
\* room runs no permutation and puts the value after the values there; an
\* absorb on a full buffer runs the permutation once, on the buffer, and
\* starts a buffer with the value; an absorb while squeezing runs no
\* permutation and starts a buffer with the value, dropping the outputs.
C33_AbsorbKeepsInput ==
  /\ [](duplex.pc \in {"ready", "loop"} =>
          /\ Flatten(duplex.blocks) \o Buffered(duplex.d) = duplex.absorbed
          /\ Len(duplex.blocks) = duplex.d.permutations
          /\ duplex.d.state = StateAfter(duplex.made, duplex.blocks)
          /\ Len(Buffered(duplex.d)) <= Rate
          /\ \A i \in 1..Len(duplex.outs) :
               LET o == duplex.outs[i]
                   before == SubSeq(duplex.blocks, 1, o.permutations)
               IN  /\ Flatten(before) = SubSeq(duplex.absorbed, 1, o.absorbed)
                   /\ o.e = StateAfter(duplex.made, before)[o.word])
  /\ [][AbsorbStep =>
          IF HasRoom(duplex.d)
          THEN /\ duplex'.d.permutations = duplex.d.permutations
               /\ duplex'.d.state = duplex.d.state
               /\ duplex'.d.sponge.mode = "Absorbing"
               /\ Values(duplex'.d.sponge.rate) = Append(Values(duplex.d.sponge.rate), Absorbed)
          ELSE IF duplex.d.sponge.mode = "Absorbing"
          THEN /\ duplex'.d.permutations = duplex.d.permutations + 1
               /\ duplex'.d.state = Permute(PadAndAdd(duplex.d.state, duplex.d.sponge.rate))
               /\ duplex'.d.sponge = Absorbing([RateDefault EXCEPT ![1] = Some(Absorbed)])
          ELSE /\ duplex'.d.permutations = duplex.d.permutations
               /\ duplex'.d.state = duplex.d.state
               /\ duplex'.d.sponge = Absorbing([RateDefault EXCEPT ![1] = Some(Absorbed)])]_vars

\* C33's case: a buffer was filled, an absorb on the full buffer ran the
\* permutation, and an element was squeezed after it.
C33_Witness ==
  /\ duplex.pc = "ready" /\ Len(duplex.absorbed) = Rate + 1
  /\ duplex.d.permutations = 2 /\ Len(duplex.outs) = 1
  /\ Values(duplex.blocks[1]) = SubSeq(duplex.absorbed, 1, Rate)
  /\ Values(duplex.blocks[2]) = <<duplex.absorbed[Rate + 1]>>
  /\ duplex.absorbed[1] # duplex.absorbed[2]
\* C33's case: a value absorbed while squeezing, after one output of the two
\* was read.
C33_WitnessWhileSqueezing ==
  /\ duplex.pc = "ready" /\ Len(duplex.outs) = 1 /\ Len(duplex.absorbed) = 2
  /\ duplex.outs[1].absorbed = 1
  /\ duplex.d.sponge = Absorbing([RateDefault EXCEPT ![1] = Some(duplex.absorbed[2])])
  /\ duplex.d.permutations = 1

\* C34: every call of squeeze returns, within three turns of its loop, the
\* element the code's squeeze returns.  Called while absorbing it runs the
\* permutation once on the buffer and returns word 0 of the state; called
\* with outputs left it runs no permutation and returns the next word of the
\* state, the words 1 to Rate - 1 in order; called with the outputs used up
\* it runs the permutation once with nothing added and returns word 0 of the
\* new state.
C34_SqueezeReturns ==
  /\ (duplex.pc = "loop") ~> (duplex.pc = "ready")
  /\ [](duplex.pc \in {"ready", "loop"} =>
          /\ duplex.turns <= 3
          /\ \A i \in 1..Len(duplex.outs) :
               LET o == duplex.outs[i]
                   s == o.start
               IN  /\ o.turns <= 3
                   /\ o.e = DuplexSqueeze(s).e
                   /\ IF s.sponge.mode = "Absorbing"
                      THEN /\ o.permutations = s.permutations + 1
                           /\ o.state = Permute(PadAndAdd(s.state, s.sponge.rate))
                           /\ o.word = 1 /\ o.e = o.state[1]
                      ELSE IF \E k \in 1..Rate : s.sponge.rate[k].some
                      THEN /\ o.permutations = s.permutations
                           /\ o.state = s.state
                           /\ i > 1 /\ duplex.outs[i - 1].absorbed = o.absorbed
                           /\ o.word = duplex.outs[i - 1].word + 1
                           /\ o.e = o.state[o.word]
                      ELSE /\ o.permutations = s.permutations + 1
                           /\ o.state = Permute(s.state)
                           /\ i > 1 /\ duplex.outs[i - 1].word = Rate
                           /\ o.word = 1 /\ o.e = o.state[1])
  /\ [][(duplex.pc = "loop" /\ duplex'.pc = "ready") =>
          /\ Len(duplex'.outs) = Len(duplex.outs) + 1
          /\ duplex'.d = DuplexSqueeze(duplex.start).d]_vars

\* C34's case: after one absorb, three squeezes returned word 0, word 1, and
\* word 0 of the state after a permutation with nothing added.
C34_Witness ==
  /\ duplex.pc = "ready" /\ Len(duplex.absorbed) = 1 /\ Len(duplex.outs) = Rate + 1
  /\ duplex.outs[1].start.sponge.mode = "Absorbing"
  /\ duplex.outs[Rate].word = Rate /\ duplex.outs[Rate].turns = 1
  /\ duplex.outs[Rate + 1].turns = 3
  /\ duplex.outs[Rate + 1].permutations = 2
  /\ duplex.outs[Rate + 1].e = Permute(duplex.outs[Rate].state)[1]
  /\ duplex.outs[Rate + 1].e # duplex.outs[1].e

====
